---------------------------- MODULE Spec2Model ----------------------------
(***************************************************************************)
(* Model of the Open Data Cube importer (52North/opendatacube-importer).   *)
(*                                                                         *)
(* Spec      : main() of odc_importer/odc.py looping over the data sources *)
(*             of config.DATASOURCES, with the grid (NetCDF) loaders, the  *)
(*             metadata builders and the reconciliation engine.  Several   *)
(*             runs of main follow each other against the same disk and    *)
(*             the same index.                                             *)
(* SpecDl    : one call of a loader's download(), step by step, for the    *)
(*             AnthroProtect, CMEMS, GFS and global relief loaders.        *)
(*                                                                         *)
(* Python dictionaries are functions with string domains, so that a        *)
(* missing key is visible as k \notin DOMAIN d.  An exception is the       *)
(* record [exc |-> <type>].  Every I/O call may fail: the failure is an    *)
(* input of the step that makes the call.                                  *)
(***************************************************************************)
EXTENDS Integers, Sequences, FiniteSets, TLC

(***************************************************************************)
(* Bounds                                                                  *)
(***************************************************************************)
MaxRuns == 2        \* runs of main() against the same disk and index
MaxFiles == 2       \* data files on the disk before the first run
MaxVanish == 1      \* files deleted by someone else while a run is going on
MaxFaults == 1      \* calls of the disk or of the index that fail, over all runs

(***************************************************************************)
(* State                                                                   *)
(***************************************************************************)
VARIABLES
  run,                  \* number of the current run of main()
  pc,                   \* where main() is: idle, download, map, products,
                        \*   datasets, done, crashed (uncaught exception)
  src,                  \* idx of the data source being processed
  pi,                   \* position in loader.product_names
  di,                   \* position in the dataset list of that product
  folder,               \* folder[s]: self.folder of the loader of source s
  product_names,        \* product_names[s]: self.product_names of that loader
  dirs,                 \* the folders that exist under the global data folder
  files,                \* files[f]: names of the data files lying in folder f
  product_dataset_map,  \* loader.product_dataset_map of the current loader
  index_products,       \* names of the products in the index
  index_datasets,       \* ids of the datasets in the index
  product_files,        \* content of each '*.odc-product.yaml' on disk
  dataset_files,        \* content of each '*.odc-metadata.yaml' on disk
  log,                  \* what this run has logged, and the exception that ended it
  product_adds,         \* product_adds[n]: successful insertions of product n, ever
  dataset_adds,         \* dataset_adds[i]: successful insertions of dataset id i, ever
  run_inserts,          \* successful insertions into the index during this run
  prev_completed,       \* the run before this one went through to its end
  vanished,             \* data files deleted by someone else so far
  faults,               \* calls of the disk or of the index that have failed so far
  sidecars_written,     \* dataset yaml files written by the current run
  dl_kind,              \* SpecDl: the loader whose download() is called
  dl_pc,                \* SpecDl: where download() is
  dl_force,             \* SpecDl: the value of the force-download variable
  dl_out,               \* SpecDl: the output folder exists
  dl_zip,               \* SpecDl: the archive: absent, good (expected hash), bad
  dl_file,              \* SpecDl: the data file of the global relief loader exists
  dl_result,            \* SpecDl: none, True, False, or raised
  dl_net,               \* SpecDl: network requests made so far
  dl_failed,            \* SpecDl: an I/O step of this call failed, or the hash was wrong
  dl_pre,               \* SpecDl: disk and request count when this call began
  dl_calls,             \* SpecDl: calls of download() so far
  b_pc,                 \* SpecBuild: where the engine is: ready, product_done, crashed
  b_name,               \* SpecBuild: the product name the engine asks for
  b_product_md,         \* SpecBuild: the product descriptor the loader returns
  b_dataset_md,         \* SpecBuild: the dataset descriptor the loader returns
  b_path,               \* SpecBuild: the file the dataset descriptor is about
  b_product_yaml,       \* SpecBuild: what create_product_yaml_eo3 returned, if called
  b_dataset_yaml,       \* SpecBuild: what create_dataset_yaml_eo3 returned, if called
  b_ids,                \* SpecBuild: the dataset ids computed for b_path so far
  b_calls,              \* SpecBuild: passes of the dataset loop over b_path so far
  m_pc,                 \* SpecMap: where main() is with the AnthroProtect source:
                        \*   map, products, datasets, done, crashed
  m_names,              \* SpecMap: self.product_names of AnthroprotectLoader
  m_tiles,              \* SpecMap: the '.tif' files of tiles/s2, tiles/s2_scl, tiles/lcs
  m_yaml,               \* SpecMap: tiles/s2 also holds a yaml file
  m_invest,             \* SpecMap: the '.tif' files of the folder 'investigative'
  m_i,                  \* SpecMap: position in the product names
  s_pc,                 \* where the start of main() is: off, connect, init_db,
                        \*   folder, sources (the loop over the data sources),
                        \*   exited
  max_retries,          \* args.max_retries
  times_slept,          \* times_slept of main()
  db_conn_ok,           \* db_conn_ok of main()
  s_folder,             \* the global data folder: missing, readonly, writable
  s_cause,              \* what ended the process, "none" while it runs
  s_value,              \* the value passed to exit(), -1 while it runs
  s_status,             \* the exit status the operating system reports
  g_pc,                 \* SpecGeo: off, file (a file to describe), described
  g_family,             \* SpecGeo: the adapter family, netcdf or geotiff
  g_facts,              \* SpecGeo: what the library reads from the file
  g_md                  \* SpecGeo: what create_dataset_metadata_eo3 gave

(***************************************************************************)
(* Configuration (odc_importer/config.py and the loaders' constructors)    *)
(***************************************************************************)
DATASOURCES == <<"cmems_waves", "gfs">>

Folders == {"waves", "weather"}
ProductNames == {"waves", "weather"}

DefaultFolder(kind) == IF kind = "cmems_waves" THEN "waves" ELSE "weather"

DefaultProductName(kind) == IF kind = "cmems_waves" THEN "waves" ELSE "weather"

waves_measurements ==
  << [name |-> "VHM0", dtype |-> "int16", nodata |-> "-32767", units |-> "m",
      aliases |-> <<"sea_surface_wave_significant_height">>],
     [name |-> "VTPK", dtype |-> "int16", nodata |-> "-32767", units |-> "s",
      aliases |-> <<"sea_surface_wave_period_at_variance_spectral_density_maximum">>],
     [name |-> "VMDR", dtype |-> "int16", nodata |-> "-32767", units |-> "degree",
      aliases |-> <<"sea_surface_wave_from_direction">>] >>

gfs_measurements ==
  << [name |-> "Temperature_surface", dtype |-> "float32", nodata |-> "NaN",
      units |-> "K", aliases |-> <<"TMP">>],
     [name |-> "Pressure_reduced_to_MSL_msl", dtype |-> "float32", nodata |-> "NaN",
      units |-> "Pa", aliases |-> <<"PRMSL">>],
     [name |-> "Wind_speed_gust_surface", dtype |-> "float32", nodata |-> "NaN",
      units |-> "m/s", aliases |-> <<"GUST">>],
     [name |-> "u_component_of_wind_height_above_ground", dtype |-> "float32",
      nodata |-> "NaN", units |-> "m/s",
      aliases |-> <<"u-component_of_wind_height_above_ground",
                    "u_wind_height_above_ground", "UGRD">>],
     [name |-> "v_component_of_wind_height_above_ground", dtype |-> "float32",
      nodata |-> "NaN", units |-> "m/s",
      aliases |-> <<"v-component_of_wind_height_above_ground",
                    "v_wind_height_above_ground", "VGRD">>] >>

\* the class attribute measurement_dict of the loader of a data source
measurement_dict(kind) ==
  IF kind = "cmems_waves" THEN waves_measurements ELSE gfs_measurements

(***************************************************************************)
(* Files.  A file name is <<stem, extension>>; a path is <<folder, name>>. *)
(***************************************************************************)
StemSeq == <<"a", "b", "c", "d">>

DataNames == {<<StemSeq[i], "nc">> : i \in 1..MaxFiles}

\* '{}.odc-metadata.yaml'.format(file_or_folder_name), next to the data file
dataset_filename(path) == <<path[1], <<path[2], "odc-metadata.yaml">>>>

\* os.path.join(global_data_folder, loader.get_folder(), '{}.odc-product.yaml')
product_filename(fld, odc_product) == <<fld, <<odc_product, "odc-product.yaml">>>>

\* a filter that lets every entry of the listing through
endswith_any(name, ext) == TRUE

\* str.endswith on a file name
endswith(name, ext) == name[2] = ext

\* all orders in which os.listdir may return the entries of S
Listings(S) ==
  {s \in [1..Cardinality(S) -> S] : \A i, j \in 1..Cardinality(S) : s[i] = s[j] => i = j}

(***************************************************************************)
(* Exceptions and dictionaries                                             *)
(***************************************************************************)
Raise(type) == [exc |-> type]

IsExc(x) == "exc" \in DOMAIN x

\* dict.update: the keys of e are added to d, overwriting
update(d, e) ==
  [k \in (DOMAIN d) \cup (DOMAIN e) |-> IF k \in DOMAIN e THEN e[k] ELSE d[k]]

\* an id made from the path and from the moment it is made, as uuid.uuid1 does
uuid1(path) == <<"uuid1", b_calls, path>>

\* str(uuid.uuid5(uuid.NAMESPACE_URL, path)): a hash of the path string alone
uuid5(path) == <<"uuid5", "NAMESPACE_URL", path>>

(***************************************************************************)
(* NetCDFLoader (odc_importer/loaders/netcdf.py)                           *)
(***************************************************************************)
_create_metadata_document(odc_product_name) ==
  [product |-> [name |-> odc_product_name]]

create_product_metadata_eo3(kind, odc_product_name) ==
  [name |-> odc_product_name,
   description |-> odc_product_name,
   metadata |-> _create_metadata_document(odc_product_name),
   measurements |-> measurement_dict(kind)]

\* what xarray / rioxarray (or rasterio) read from a file that has all of
\* its geospatial metadata
GeoFacts ==
  [crs |-> "CRS(EPSG:4326)", has_coords |-> TRUE, has_time |-> TRUE,
   georeferenced |-> TRUE,
   min_lat |-> 50, max_lat |-> 60, min_lon |-> 0, max_lon |-> 10,
   height |-> 2, width |-> 3, transform |-> <<5, 0, 0, 0, -5, 60, 0, 0, 1>>,
   time |-> "2023-01-01T00:00:00"]

\* the objects a library gives as the CRS of a file: a CRS, None for a file
\* without one, or (rasterio before 1.0) an empty CRS object
CrsObjects == {"CRS(EPSG:4326)", "NoneType", "CRS()"}

\* str(crs) and crs.to_string() of a CRS object, str(None)
str_crs(crs) ==
  IF crs = "CRS(EPSG:4326)" THEN "EPSG:4326"
  ELSE IF crs = "NoneType" THEN "None"
  ELSE ""

\* ds_shape = [ds_nc.rio.shape[1], ds_nc.rio.shape[0]]
ds_shape(rio_shape) == <<rio_shape[2], rio_shape[1]>>

\* NetCDFLoader.create_dataset_metadata_eo3 for a file with the facts g:
\* ds_nc.coords['latitude'] raises KeyError without the coordinate,
\* ds_nc.time raises AttributeError without a time coordinate
netcdf_dataset_metadata(g, kind, odc_product_name, dataset) ==
  IF ~ g.has_coords THEN Raise("KeyError")
  ELSE IF ~ g.has_time THEN Raise("AttributeError")
  ELSE
    LET rio_shape == <<g.height, g.width>>     \* rio.shape is (height, width)
    IN [id |-> uuid5(dataset),
        schema |-> "https://schemas.opendatacube.org/dataset",
        product_name |-> "waves",
        crs |-> str_crs(g.crs),
        polygon |-> << <<g.min_lat, g.min_lon>>, <<g.min_lat, g.max_lon>>,
                       <<g.max_lat, g.max_lon>>, <<g.max_lat, g.min_lon>>,
                       <<g.min_lat, g.min_lon>> >>,
        shape |-> ds_shape(rio_shape),
        transform |-> g.transform,
        bands |-> [i \in 1..Len(measurement_dict(kind)) |->
                     [name |-> measurement_dict(kind)[i].name,
                      path |-> dataset,
                      layer |-> measurement_dict(kind)[i].name]],
        platform |-> "na",
        instrument |-> "na",
        datetime |-> g.time,
        processing_datetime |-> g.time,
        file_format |-> "NETCDF",
        lineage |-> << >>]

\* the descriptor of a readable file; an unreadable file raises instead
create_dataset_metadata_eo3(kind, odc_product_name, dataset) ==
  netcdf_dataset_metadata(GeoFacts, kind, odc_product_name, dataset)

\* CmemsLoader.download / GfsLoader.download: True iff the folder exists
CmemsLoader_download(out_folder_exists) == out_folder_exists

(***************************************************************************)
(* AnthroprotectLoader, the dataset descriptor (anthroprotect.py)          *)
(***************************************************************************)
\* odc_product_name.startswith('s2_scl') / ('s2') / ('lcs'), in this order
NamePrefix(odc_product_name) ==
  IF odc_product_name = "s2_scl" THEN "s2_scl"
  ELSE IF odc_product_name = "s2" THEN "s2"
  ELSE IF odc_product_name = "lcs" THEN "lcs"
  ELSE "none"

\* geotiff.get_transform() in the order the code puts it into 'transform';
\* a file that is not georeferenced gives the identity
tif_transform(g) ==
  IF g.georeferenced THEN g.transform ELSE <<1, 0, 0, 0, 1, 0, 0, 0, 1>>

\* AnthroprotectLoader.create_dataset_metadata_eo3 for a file with the facts
\* g: every band has 'path' and 'band'; the metadata document goes into
\* 'additions' only; geotiff.crs.to_string() raises AttributeError when the
\* library gives None for a file without a CRS and gives the empty string
\* when it gives an empty CRS object
anthro_dataset_metadata(g, odc_product_name, dataset) ==
  IF NamePrefix(odc_product_name) = "none"
  THEN Raise("UnboundLocalError")
  ELSE IF g.crs = "NoneType" THEN Raise("AttributeError")
  ELSE [id |-> uuid5(dataset),
        product_name |-> odc_product_name,
        crs |-> str_crs(g.crs),
        polygon |-> << <<g.min_lon, g.min_lat>>,
                       <<g.min_lon, g.max_lat>>,
                       <<g.max_lon, g.max_lat>>,
                       <<g.max_lon, g.min_lat>>,
                       <<g.min_lon, g.min_lat>> >>,
        shape |-> <<g.height, g.width>>,
        transform |-> tif_transform(g),
        bands |-> <<[name |-> "band_1", path |-> dataset, band |-> 1]>>,
        platform |-> NamePrefix(odc_product_name),
        instrument |-> "None",
        datetime |-> "2020-08-01T12:00:00.00Z",
        processing_datetime |-> "2021-10-12T12:00:00.00Z",
        file_format |-> "GeoTIFF",
        lineage |-> << >>,
        additions |-> [keywords |-> <<"AnthroProtect">>,
                       links |-> <<"http://rs.ipb.uni-bonn.de/data/anthroprotect/">>]]

anthro_create_dataset_metadata_eo3(odc_product_name, dataset) ==
  anthro_dataset_metadata(GeoFacts, odc_product_name, dataset)

(***************************************************************************)
(* Metadata builders (odc_importer/odc.py)                                 *)
(***************************************************************************)
\* a builder whose assertion compares the first two names only
create_product_yaml_eo3_twonames(odc_product_name, metadata_dict) ==
  IF odc_product_name # metadata_dict.name
  THEN Raise("AssertionError")
  ELSE IF "measurements" \notin DOMAIN metadata_dict
  THEN Raise("KeyError")
  ELSE [metadata_type |-> "eo3",
        name |-> metadata_dict.name,
        description |-> metadata_dict.description,
        metadata |-> metadata_dict.metadata,
        measurements |-> metadata_dict.measurements]

create_product_yaml_eo3(odc_product_name, metadata_dict) ==
  IF ~ (odc_product_name = metadata_dict.name
        /\ metadata_dict.name = metadata_dict.metadata.product.name)
  THEN Raise("AssertionError")
  ELSE IF "measurements" \notin DOMAIN metadata_dict
  THEN Raise("KeyError")
  ELSE IF \E i \in 1..Len(metadata_dict.measurements) :
            {"dtype", "units", "nodata", "aliases"}
               \ DOMAIN metadata_dict.measurements[i] # {}
  THEN Raise("KeyError")
  ELSE [metadata_type |-> "eo3",
        name |-> metadata_dict.name,
        description |-> metadata_dict.description,
        metadata |-> metadata_dict.metadata,
        measurements |->
          [i \in 1..Len(metadata_dict.measurements) |->
             [name |-> metadata_dict.measurements[i].name,
              dtype |-> metadata_dict.measurements[i].dtype,
              units |-> metadata_dict.measurements[i].units,
              nodata |-> metadata_dict.measurements[i].nodata,
              aliases |-> metadata_dict.measurements[i].aliases]]]

\* an entry that takes the band index and leaves the layer name out
band_entry_nolayer(b) ==
  IF "band" \in DOMAIN b THEN [path |-> b.path, band |-> b.band] ELSE [path |-> b.path]

\* one entry of 'measurements': path, and band and layer if the band has them
band_entry(b) ==
  LET d0 == [path |-> b.path]
      d1 == IF "band" \in DOMAIN b THEN update(d0, [band |-> b.band]) ELSE d0
  IN IF "layer" \in DOMAIN b THEN update(d1, [layer |-> b.layer]) ELSE d1

create_dataset_yaml_eo3(odc_product_name, metadata_dict) ==
  IF "metadata" \notin DOMAIN metadata_dict
  THEN Raise("KeyError")
  ELSE IF odc_product_name # metadata_dict.metadata.product.name
  THEN Raise("AssertionError")
  ELSE update(
        [schema |-> IF "schema" \in DOMAIN metadata_dict THEN metadata_dict.schema
                    ELSE "https://schemas.opendatacube.org/dataset",
         id |-> metadata_dict.id,
         crs |-> metadata_dict.crs,
         geometry |-> [type |-> "Polygon", coordinates |-> metadata_dict.polygon],
         grids |-> [default |-> [shape |-> metadata_dict.shape,
                                 transform |-> metadata_dict.transform]],
         measurements |-> [i \in 1..Len(metadata_dict.bands) |->
                             update([name |-> metadata_dict.bands[i].name],
                                    band_entry(metadata_dict.bands[i]))],
         properties |-> [platform |-> metadata_dict.platform,
                         instrument |-> metadata_dict.instrument,
                         datetime |-> metadata_dict.datetime,
                         processing_datetime |-> metadata_dict.processing_datetime,
                         file_format |-> metadata_dict.file_format],
         lineage |-> IF "lineage" \in DOMAIN metadata_dict THEN metadata_dict.lineage
                     ELSE << >>],
        metadata_dict.metadata)

(***************************************************************************)
(* The state as a whole, and what is read from the disk                    *)
(***************************************************************************)
vars == <<run, pc, src, pi, di, folder, product_names, dirs, files,
          product_dataset_map, index_products, index_datasets, product_files,
          dataset_files, log, product_adds, dataset_adds, run_inserts,
          prev_completed, vanished, faults, sidecars_written,
          dl_kind, dl_pc, dl_force, dl_out, dl_zip,
          dl_file, dl_result, dl_net, dl_failed, dl_pre, dl_calls,
          b_pc, b_name, b_product_md, b_dataset_md, b_path, b_product_yaml,
          b_dataset_yaml, b_ids, b_calls,
          m_pc, m_names, m_tiles, m_yaml, m_invest, m_i,
          s_pc, max_retries, times_slept, db_conn_ok, s_folder, s_cause,
          s_value, s_status, g_pc, g_family, g_facts, g_md>>

mainvars == <<run, pc, src, pi, di, folder, product_names, dirs, files,
              product_dataset_map, index_products, index_datasets, product_files,
              dataset_files, log, product_adds, dataset_adds, run_inserts,
              prev_completed, vanished, faults, sidecars_written>>

dlvars == <<dl_kind, dl_pc, dl_force, dl_out, dl_zip, dl_file, dl_result, dl_net,
            dl_failed, dl_pre, dl_calls>>

buildvars == <<b_pc, b_name, b_product_md, b_dataset_md, b_path, b_product_yaml,
               b_dataset_yaml, b_ids, b_calls>>

mapvars == <<m_pc, m_names, m_tiles, m_yaml, m_invest, m_i>>

startvars == <<s_pc, max_retries, times_slept, db_conn_ok, s_folder, s_cause,
               s_value, s_status>>

geovars == <<g_pc, g_family, g_facts, g_md>>

\* the variables of the specifications that follow Spec and SpecDl
extvars == <<buildvars, mapvars, startvars, geovars>>

\* a descriptor or a document that has not been built
NotBuilt == << >>

\* SpecBuild is not running
BuildOff ==
  /\ b_pc = "off"
  /\ b_name = ""
  /\ b_product_md = NotBuilt
  /\ b_dataset_md = NotBuilt
  /\ b_path = << >>
  /\ b_product_yaml = NotBuilt
  /\ b_dataset_yaml = NotBuilt
  /\ b_ids = {}
  /\ b_calls = 0

\* SpecGeo is not running
GeoOff ==
  /\ g_pc = "off"
  /\ g_family = "none"
  /\ g_facts = << >>
  /\ g_md = << >>

\* the start of main() is not looked at
StartOff ==
  /\ s_pc = "off"
  /\ max_retries = 0
  /\ times_slept = 0
  /\ db_conn_ok = FALSE
  /\ s_folder = "writable"
  /\ s_cause = "none"
  /\ s_value = -1
  /\ s_status = -1

\* SpecMap is not running
MapOff ==
  /\ m_pc = "off"
  /\ m_names = << >>
  /\ m_tiles = << >>
  /\ m_yaml = FALSE
  /\ m_invest = {}
  /\ m_i = 1

Sources == 1..Len(DATASOURCES)

Paths == Folders \X DataNames

EmptyDict == [k \in {} |-> {}]

\* os.path.exists of a data file
exists(path) == path[1] \in dirs /\ path[2] \in files[path[1]]

\* os.listdir(folder): data files and the yaml files stored next to them
listdir(fld) ==
  files[fld]
    \cup {p[2] : p \in {q \in DOMAIN dataset_files : q[1] = fld}}
    \cup {p[2] : p \in {q \in DOMAIN product_files : q[1] = fld}}

(***************************************************************************)
(* main(): the order of the two reconciliation calls, the loops' positions *)
(***************************************************************************)
\* the two calls of main() in the other order
MainOrder_swapped == <<"datasets", "products">>

\* add_products_to_odc(loader, ...) then add_datasets_to_odc(loader, dc)
MainOrder == <<"products", "datasets">>

PhaseAfter(phase) == IF phase = MainOrder[1] THEN MainOrder[2] ELSE "next"

\* the next place where main() has something to do, going through loop
\* headers: an exhausted loop is left, an empty list is stepped over
RECURSIVE Settle(_, _, _, _, _)
Settle(p, s, i, j, m) ==
  IF p = "next"
  THEN IF s < Len(DATASOURCES)
       THEN [pc |-> "download", src |-> s + 1, pi |-> 1, di |-> 1]
       ELSE [pc |-> "done", src |-> s, pi |-> 1, di |-> 1]
  ELSE IF i > Len(product_names[s])
  THEN Settle(PhaseAfter(p), s, 1, 1, m)
  ELSE IF p = "products"
  THEN [pc |-> p, src |-> s, pi |-> i, di |-> 1]
  ELSE IF product_names[s][i] \notin DOMAIN m
  THEN [pc |-> "crashed", src |-> s, pi |-> i, di |-> j]
  ELSE IF j <= Len(m[product_names[s][i]])
  THEN [pc |-> p, src |-> s, pi |-> i, di |-> j]
  ELSE Settle(p, s, i + 1, 1, m)

\* a log message: who logged it, which message, about what, with which error
Entry(s, kind, what) == [src |-> s, kind |-> kind, what |-> what, err |-> ""]

ErrEntry(s, kind, what, err) == [src |-> s, kind |-> kind, what |-> what, err |-> err.exc]

\* main() goes on at pos, having logged lg
Goto(pos, lg) ==
  /\ pc' = pos.pc
  /\ src' = pos.src
  /\ pi' = pos.pi
  /\ di' = pos.di
  /\ log' = IF pos.pc = "crashed"
            THEN Append(lg, Entry(pos.src, "uncaught", "product_dataset_map[odc_product]"))
            ELSE lg

\* an exception nobody catches ends main()
Crash(what) ==
  /\ pc' = "crashed"
  /\ log' = Append(log, Entry(src, "uncaught", what))
  /\ UNCHANGED <<src, pi, di>>

(***************************************************************************)
(* The index (datacube) and the checks the engine makes before it writes   *)
(***************************************************************************)
\* a membership test that never finds the product
ProductInIndex_never(odc_product, names) == FALSE

\* odc_product in dc.list_products()['name'].values
ProductInIndex(odc_product, names) == odc_product \in names

\* a query that never finds the dataset
DatasetInIndex_never(dataset_id, ids) == FALSE

\* dc.index.datasets.get(id_=dataset_id) is not None
DatasetInIndex(dataset_id, ids) == dataset_id \in ids

\* an add_document whose insertion is not kept by the index
IndexAddProduct_lost(names, product_yaml) == names

\* dc.index.products.add_document(product_yaml)
IndexAddProduct(names, product_yaml) == names \cup {product_yaml.name}

\* an add that leaves the new dataset alone in the index
IndexAddDataset_replacing(ids, dataset_yaml) == {dataset_yaml.id}

\* dc.index.datasets.add(dataset[0])
IndexAddDataset(ids, dataset_yaml) == ids \cup {dataset_yaml.id}

\* Doc2Dataset: the document resolves to a dataset of a product of the index
Doc2Dataset(dataset_yaml, names) ==
  "product" \in DOMAIN dataset_yaml /\ dataset_yaml.product.name \in names

\* the product file written without looking for an existing one
ProductFileAbsent_always(fname, on_disk) == TRUE

\* 'if not os.path.exists(product_filename)' before the product file is written
ProductFileAbsent(fname, on_disk) == fname \notin DOMAIN on_disk

\* an except clause that catches the builders' KeyError only
except_KeyError(err) == err.exc = "KeyError"

\* 'except Exception as err' around the work on one dataset
except_Exception(err) == TRUE

\* a main() that goes on whatever download() returned
DownloadGate_ignored(download_success) == TRUE

\* 'if not download_success' in main(): the source is processed or skipped
DownloadGate(download_success) == download_success

(***************************************************************************)
(* Initial state: a configuration, a disk and an index, before the first   *)
(* run.  The first source keeps its default folder and product name, the   *)
(* second may be configured to share them.  Only the folders of the data   *)
(* sources are looked at, so no other folder is put on the disk.           *)
(***************************************************************************)
OldProductFile ==
  [metadata_type |-> "eo3", name |-> "waves", description |-> "written earlier"]

Init ==
  /\ BuildOff
  /\ MapOff
  /\ StartOff
  /\ GeoOff
  /\ run = 0
  /\ pc = "idle"
  /\ src = 1
  /\ pi = 1
  /\ di = 1
  /\ folder \in {f \in [Sources -> Folders] : f[1] = DefaultFolder(DATASOURCES[1])}
  /\ \E n \in [Sources -> ProductNames] :
        /\ n[1] = DefaultProductName(DATASOURCES[1])
        /\ product_names = [s \in Sources |-> <<n[s]>>]
  /\ dirs \in SUBSET {folder[s] : s \in Sources}
  /\ files \in {f \in [Folders -> SUBSET DataNames] :
                   /\ \A d \in Folders : d \notin dirs => f[d] = {}
                   /\ Cardinality(f["waves"]) + Cardinality(f["weather"]) <= MaxFiles}
  /\ product_dataset_map = EmptyDict
  /\ index_products = {}
  /\ index_datasets \in {{}, {uuid5(<<"waves", <<StemSeq[1], "nc">>>>)}}
  /\ product_files \in
        {EmptyDict} \cup
        {[k \in {product_filename(d, "waves")} |-> OldProductFile] : d \in dirs}
  /\ dataset_files = EmptyDict
  /\ log = << >>
  /\ product_adds = [n \in ProductNames |-> 0]
  /\ dataset_adds = [i \in {uuid5(p) : p \in Paths} |-> 0]
  /\ run_inserts = 0
  /\ prev_completed = FALSE
  /\ vanished = 0
  /\ faults = 0
  /\ sidecars_written = {}
  /\ dl_kind = "none"
  /\ dl_pc = "off"
  /\ dl_force = "unset"
  /\ dl_out = FALSE
  /\ dl_zip = "absent"
  /\ dl_file = FALSE
  /\ dl_result = "none"
  /\ dl_net = 0
  /\ dl_failed = FALSE
  /\ dl_pre = << >>
  /\ dl_calls = 0

\* a call of the disk or of the index fails (fault names the call) or none does
Failing(fault) ==
  /\ fault # "none" => faults < MaxFaults
  /\ faults' = IF fault = "none" THEN faults ELSE faults + 1

(***************************************************************************)
(* main(), one step at a time                                              *)
(***************************************************************************)
\* main() is started: by hand, or again by the periodic schedule
StartRun ==
  /\ pc \in {"idle", "done", "crashed"}
  /\ run < MaxRuns
  /\ run' = run + 1
  /\ prev_completed' = (pc = "done")
  /\ run_inserts' = 0
  /\ sidecars_written' = {}
  /\ product_dataset_map' = EmptyDict
  /\ Goto([pc |-> "download", src |-> 1, pi |-> 1, di |-> 1], << >>)
  /\ UNCHANGED <<folder, product_names, dirs, files, index_products,
                 index_datasets, product_files, dataset_files, product_adds,
                 dataset_adds, vanished, faults>>
  /\ UNCHANGED <<dlvars, extvars>>

\* loader = datasource[1](); download_success = loader.download(...)
Download ==
  /\ pc = "download"
  /\ product_dataset_map' = EmptyDict
  /\ LET download_success == CmemsLoader_download(folder[src] \in dirs)
     IN IF DownloadGate(download_success)
        THEN /\ pc' = "map"
             /\ log' = IF download_success THEN log
                       ELSE Append(log, Entry(src, "folder_missing", folder[src]))
             /\ UNCHANGED <<src, pi, di>>
        ELSE Goto(Settle("next", src, 1, 1, EmptyDict),
                  log \o << Entry(src, "folder_missing", folder[src]),
                            Entry(src, "download_failed", DATASOURCES[src]) >>)
  /\ UNCHANGED <<run, folder, product_names, dirs, files, index_products,
                 index_datasets, product_files, dataset_files, product_adds,
                 dataset_adds, run_inserts, prev_completed, vanished, faults,
                 sidecars_written>>
  /\ UNCHANGED <<dlvars, extvars>>

\* loader.create_product_dataset_map(global_data_folder) of NetCDFLoader,
\* then dc = datacube.Datacube(config=DATACUBE_CONF)
CreateMap ==
  /\ pc = "map"
  /\ \E fault \in {"none", "listdir", "Datacube"} :
       /\ Failing(fault)
       /\ IF fault = "listdir" \/ folder[src] \notin dirs
          THEN /\ Crash("os.listdir")
               /\ UNCHANGED product_dataset_map
          ELSE \E listing \in Listings({e \in listdir(folder[src]) : endswith(e, "nc")}) :
                 LET datasets == [i \in 1..Len(listing) |-> <<folder[src], listing[i]>>]
                     m == [k \in {product_names[src][1]} |-> datasets]
                     lg == Append(log, Entry(src, "map_created", product_names[src][1]))
                 IN /\ product_dataset_map' = m
                    /\ IF fault = "Datacube"
                       THEN /\ pc' = "crashed"
                            /\ log' = Append(lg, Entry(src, "uncaught", "datacube.Datacube"))
                            /\ UNCHANGED <<src, pi, di>>
                       ELSE Goto(Settle(MainOrder[1], src, 1, 1, m), lg)
  /\ UNCHANGED <<run, folder, product_names, dirs, files, index_products,
                 index_datasets, product_files, dataset_files, product_adds,
                 dataset_adds, run_inserts, prev_completed, vanished,
                 sidecars_written>>
  /\ UNCHANGED <<dlvars, extvars>>

\* add_products_to_odc: the body of the loop, for one product name
ProductStep ==
  /\ pc = "products"
  /\ LET odc_product == product_names[src][pi]
         product_metadata == create_product_metadata_eo3(DATASOURCES[src], odc_product)
         product_yaml == create_product_yaml_eo3(odc_product, product_metadata)
         fname == product_filename(folder[src], odc_product)
         write == ProductFileAbsent(fname, product_files)
         next == Settle("products", src, pi + 1, 1, product_dataset_map)
     IN \E fault \in {"none", "list_products", "open", "add_document"} :
          /\ Failing(fault)
          /\ IF fault = "list_products"
             THEN /\ Crash("dc.list_products")
                  /\ UNCHANGED <<index_products, product_files, product_adds, run_inserts>>
             ELSE IF ProductInIndex(odc_product, index_products)
             THEN /\ fault = "none"
                  /\ Goto(next, Append(log, Entry(src, "product_exists", odc_product)))
                  /\ UNCHANGED <<index_products, product_files, product_adds, run_inserts>>
             ELSE IF IsExc(product_yaml)
             THEN /\ fault = "none"
                  /\ Crash("create_product_yaml_eo3")
                  /\ UNCHANGED <<index_products, product_files, product_adds, run_inserts>>
             ELSE IF write /\ (fault = "open" \/ folder[src] \notin dirs)
             THEN /\ Crash("open(product_filename, 'w')")
                  /\ UNCHANGED <<index_products, product_files, product_adds, run_inserts>>
             ELSE /\ fault # "open"
                  /\ product_files' =
                       IF write
                       THEN update(product_files, [k \in {fname} |-> product_yaml])
                       ELSE product_files
                  /\ IF fault = "add_document"
                     THEN /\ Crash("dc.index.products.add_document")
                          /\ UNCHANGED <<index_products, product_adds, run_inserts>>
                     ELSE /\ index_products' = IndexAddProduct(index_products, product_yaml)
                          /\ product_adds' =
                               [product_adds EXCEPT ![odc_product] = @ + 1]
                          /\ run_inserts' = run_inserts + 1
                          /\ Goto(next, Append(log, Entry(src, "product_added", odc_product)))
  /\ UNCHANGED <<run, folder, product_names, dirs, files, product_dataset_map,
                 index_datasets, dataset_files, dataset_adds, prev_completed, vanished,
                 sidecars_written>>
  /\ UNCHANGED <<dlvars, extvars>>

\* add_datasets_to_odc: the body of the inner loop, for one file reference
DatasetStep ==
  /\ pc = "datasets"
  /\ LET odc_product == product_names[src][pi]
         odc_dataset == product_dataset_map[odc_product][di]
         dataset_id == uuid5(odc_dataset)
         next == Settle("datasets", src, pi, di + 1, product_dataset_map)
     IN IF ~ exists(odc_dataset)
        THEN /\ Goto(next, Append(log, Entry(src, "dataset_missing", odc_dataset)))
             /\ UNCHANGED <<index_datasets, dataset_files, dataset_adds, run_inserts,
                            faults, sidecars_written>>
        ELSE \E fault \in {"none", "datasets.get", "open_dataset", "open", "datasets.add"} :
          /\ Failing(fault)
          /\ IF fault = "datasets.get"
             THEN /\ Crash("dc.index.datasets.get")
                  /\ UNCHANGED <<index_datasets, dataset_files, dataset_adds, run_inserts,
                                 sidecars_written>>
             ELSE IF DatasetInIndex(dataset_id, index_datasets)
             THEN /\ fault = "none"
                  /\ Goto(next, Append(log, Entry(src, "dataset_exists", odc_dataset)))
                  /\ UNCHANGED <<index_datasets, dataset_files, dataset_adds, run_inserts,
                                 sidecars_written>>
             ELSE
               LET dataset_metadata ==
                     IF fault = "open_dataset" THEN Raise("OSError")
                     ELSE create_dataset_metadata_eo3(DATASOURCES[src], odc_product, odc_dataset)
                   dataset_yaml ==
                     IF IsExc(dataset_metadata) THEN dataset_metadata
                     ELSE create_dataset_yaml_eo3(odc_product, dataset_metadata)
                   written == ~ IsExc(dataset_yaml) /\ fault # "open"
                   err == IF IsExc(dataset_yaml) THEN dataset_yaml
                          ELSE IF fault = "open" THEN Raise("PermissionError")
                          ELSE IF ~ Doc2Dataset(dataset_yaml, index_products)
                          THEN Raise("TypeError")
                          ELSE IF fault = "datasets.add" THEN Raise("DatabaseError")
                          ELSE Raise("none")
                   added == err.exc = "none"
               IN /\ IsExc(dataset_yaml) => fault \in {"none", "open_dataset"}
                  /\ dataset_files' =
                       IF written
                       THEN update(dataset_files,
                                   [k \in {dataset_filename(odc_dataset)} |-> dataset_yaml])
                       ELSE dataset_files
                  /\ sidecars_written' =
                       IF written
                       THEN sidecars_written \cup {dataset_filename(odc_dataset)}
                       ELSE sidecars_written
                  /\ IF added
                     THEN /\ index_datasets' = IndexAddDataset(index_datasets, dataset_yaml)
                          /\ dataset_adds' = [dataset_adds EXCEPT ![dataset_yaml.id] = @ + 1]
                          /\ run_inserts' = run_inserts + 1
                          /\ Goto(next, Append(log, Entry(src, "dataset_added", odc_dataset)))
                     ELSE /\ UNCHANGED <<index_datasets, dataset_adds, run_inserts>>
                          /\ IF except_Exception(err)
                             THEN Goto(next, Append(log, ErrEntry(src, "dataset_failed", odc_dataset, err)))
                             ELSE Crash("add_datasets_to_odc")
  /\ UNCHANGED <<run, folder, product_names, dirs, files, product_dataset_map,
                 index_products, product_files, product_adds, prev_completed, vanished>>
  /\ UNCHANGED <<dlvars, extvars>>

\* someone else deletes the data file the loop is about to look at; a deletion
\* at any moment after the listing is noticed by the engine only here, at
\* os.path.exists(odc_dataset)
FileVanish ==
  /\ pc = "datasets"
  /\ vanished < MaxVanish
  /\ LET odc_dataset == product_dataset_map[product_names[src][pi]][di]
     IN /\ exists(odc_dataset)
        /\ files' = [files EXCEPT ![odc_dataset[1]] = @ \ {odc_dataset[2]}]
  /\ vanished' = vanished + 1
  /\ UNCHANGED <<run, pc, src, pi, di, folder, product_names, dirs,
                 product_dataset_map, index_products, index_datasets, product_files,
                 dataset_files, log, product_adds, dataset_adds, run_inserts,
                 prev_completed, faults, sidecars_written>>
  /\ UNCHANGED <<dlvars, extvars>>

Next ==
  \/ StartRun
  \/ Download
  \/ CreateMap
  \/ ProductStep
  \/ DatasetStep
  \/ FileVanish

Spec == Init /\ [][Next]_vars

(***************************************************************************)
(* download() of the loaders, one call after the other on the same disk    *)
(* (SpecDl).  AnthroprotectLoader: odc_importer/anthroprotect.py;          *)
(* CmemsLoader, GfsLoader, GlobalReliefLoader: odc_importer/loaders.       *)
(***************************************************************************)
MaxCalls == 2       \* calls of download() on the same disk

LoaderKinds == {"anthroprotect", "cmems", "gfs", "global_relief"}

\* what ANTHROPROTECT_FORCE_DOWNLOAD may hold in the environment
ForceEnv == {"unset", "", "True", "False"}

\* self.force_download = os.getenv('ANTHROPROTECT_FORCE_DOWNLOAD', False),
\* as 'if self.force_download' reads it
force_download(env) == env \notin {"unset", ""}

\* a check that takes every archive for the expected one
HashMatches_always(zip) == TRUE

\* self.zip_sha256_hash != calc_sha256(zip_file) is false
HashMatches(zip) == zip = "good"

\* a branch order that looks for the archive before it looks for the folder
AnthroBranch_zipfirst(force, out, zip) ==
  IF force_download(force) THEN "force_delete"
  ELSE IF zip # "absent" THEN "check_sha256"
  ELSE IF out THEN "return_true"
  ELSE "get"

\* the if / elif / elif at the head of AnthroprotectLoader.download
AnthroBranch(force, out, zip) ==
  IF force_download(force) THEN "force_delete"
  ELSE IF out THEN "return_true"
  ELSE IF zip # "absent" THEN "check_sha256"
  ELSE "get"

Snapshot == [out |-> dl_out, zip |-> dl_zip, file |-> dl_file, net |-> dl_net]

InitDl ==
  /\ BuildOff
  /\ MapOff
  /\ StartOff
  /\ GeoOff
  /\ run = 0
  /\ pc = "off"
  /\ src = 1
  /\ pi = 1
  /\ di = 1
  /\ folder = [s \in Sources |-> DefaultFolder(DATASOURCES[s])]
  /\ product_names = [s \in Sources |-> <<DefaultProductName(DATASOURCES[s])>>]
  /\ dirs = {}
  /\ files = [d \in Folders |-> {}]
  /\ product_dataset_map = EmptyDict
  /\ index_products = {}
  /\ index_datasets = {}
  /\ product_files = EmptyDict
  /\ dataset_files = EmptyDict
  /\ log = << >>
  /\ product_adds = [n \in ProductNames |-> 0]
  /\ dataset_adds = [i \in {uuid5(p) : p \in Paths} |-> 0]
  /\ run_inserts = 0
  /\ prev_completed = FALSE
  /\ vanished = 0
  /\ faults = 0
  /\ sidecars_written = {}
  /\ dl_kind \in LoaderKinds
  /\ dl_pc = "start"
  /\ dl_force \in IF dl_kind = "anthroprotect" THEN ForceEnv ELSE {"unset"}
  /\ dl_out \in BOOLEAN
  /\ dl_zip \in IF dl_kind = "anthroprotect" THEN {"absent", "good", "bad"} ELSE {"absent"}
  /\ dl_file \in IF dl_kind = "global_relief" /\ dl_out THEN BOOLEAN ELSE {FALSE}
  /\ dl_result = "none"
  /\ dl_net = 0
  /\ dl_failed = FALSE
  /\ dl_pre = [out |-> dl_out, zip |-> dl_zip, file |-> dl_file, net |-> 0]
  /\ dl_calls = 1

\* download() returns r
Return(r) ==
  /\ dl_pc' = "returned"
  /\ dl_result' = r

\* an exception leaves download()
RaiseOut ==
  /\ dl_pc' = "returned"
  /\ dl_result' = "raised"
  /\ dl_failed' = TRUE

\* AnthroprotectLoader.download: the head, up to the branch taken
AnthroStart ==
  /\ dl_pc = "start"
  /\ dl_kind = "anthroprotect"
  /\ LET branch == AnthroBranch(dl_force, dl_out, dl_zip)
     IN IF branch = "return_true"
        THEN Return("True")
        ELSE dl_pc' = branch /\ UNCHANGED dl_result
  /\ UNCHANGED <<dl_kind, dl_force, dl_out, dl_zip, dl_file, dl_net, dl_failed,
                 dl_pre, dl_calls>>
  /\ UNCHANGED <<mainvars, extvars>>

\* 'if self.force_download': shutil.rmtree(out_folder), os.remove(zip_file)
ForceDelete ==
  /\ dl_pc = "force_delete"
  /\ \E fault \in {"none", "rmtree", "remove"} :
       IF dl_out /\ fault = "rmtree"
       THEN /\ RaiseOut
            /\ UNCHANGED <<dl_out, dl_zip>>
       ELSE IF dl_zip # "absent" /\ fault = "remove"
       THEN /\ RaiseOut
            /\ dl_out' = FALSE
            /\ UNCHANGED dl_zip
       ELSE /\ fault = "none"
            /\ dl_out' = FALSE
            /\ dl_zip' = "absent"
            /\ dl_pc' = "get"
            /\ UNCHANGED <<dl_result, dl_failed>>
  /\ UNCHANGED <<dl_kind, dl_force, dl_file, dl_net, dl_pre, dl_calls>>
  /\ UNCHANGED <<mainvars, extvars>>

\* 'elif os.path.exists(zip_file)': self._check_sha256(zip_file), whose
\* result is dropped
CheckCached ==
  /\ dl_pc = "check_sha256"
  /\ \E fault \in {"none", "read", "remove"} :
       IF fault = "read"
       THEN /\ RaiseOut
            /\ UNCHANGED dl_zip
       ELSE IF HashMatches(dl_zip)
       THEN /\ fault = "none"
            /\ dl_pc' = "unzip"
            /\ UNCHANGED <<dl_zip, dl_result, dl_failed>>
       ELSE IF fault = "remove"
       THEN /\ RaiseOut
            /\ UNCHANGED dl_zip
       ELSE /\ dl_zip' = "absent"
            /\ dl_failed' = TRUE
            /\ dl_pc' = "unzip"
            /\ UNCHANGED dl_result
  /\ UNCHANGED <<dl_kind, dl_force, dl_out, dl_file, dl_net, dl_pre, dl_calls>>
  /\ UNCHANGED <<mainvars, extvars>>

\* the try block: requests.get, the chunks written to zip_file,
\* self._check_sha256(zip_file); 'except Exception' returns False
Get ==
  /\ dl_pc = "get"
  /\ dl_net' = dl_net + 1
  /\ \E fault \in {"none", "request", "write", "read", "remove"} :
       IF fault = "request"
       THEN /\ Return("False")
            /\ dl_failed' = TRUE
            /\ UNCHANGED dl_zip
       ELSE IF fault = "write"
       THEN /\ Return("False")
            /\ dl_failed' = TRUE
            /\ dl_zip' = "bad"
       ELSE \E content \in {"good", "bad"} :
              IF fault = "read"
              THEN /\ Return("False")
                   /\ dl_failed' = TRUE
                   /\ dl_zip' = content
              ELSE IF HashMatches(content)
              THEN /\ fault = "none"
                   /\ dl_zip' = content
                   /\ dl_pc' = "unzip"
                   /\ UNCHANGED <<dl_result, dl_failed>>
              ELSE IF fault = "remove"
              THEN /\ Return("False")
                   /\ dl_failed' = TRUE
                   /\ dl_zip' = content
              ELSE /\ dl_zip' = "absent"
                   /\ dl_failed' = TRUE
                   /\ dl_pc' = "unzip"
                   /\ UNCHANGED dl_result
  /\ UNCHANGED <<dl_kind, dl_force, dl_out, dl_file, dl_pre, dl_calls>>
  /\ UNCHANGED <<mainvars, extvars>>

\* self._unzip_anthroprotect: unzip, os.remove(zip_file), True; False on any
\* exception.  A failed extraction may leave a part of the folder behind.
Unzip ==
  /\ dl_pc = "unzip"
  /\ \E fault \in {"none", "extract", "remove"} :
       IF dl_zip = "absent"
       THEN /\ fault = "none"
            /\ Return("False")
            /\ dl_failed' = TRUE
            /\ UNCHANGED <<dl_out, dl_zip>>
       ELSE IF fault = "extract"
       THEN /\ Return("False")
            /\ dl_failed' = TRUE
            /\ dl_out' \in {dl_out, TRUE}
            /\ UNCHANGED dl_zip
       ELSE IF fault = "remove"
       THEN /\ Return("False")
            /\ dl_failed' = TRUE
            /\ dl_out' = TRUE
            /\ UNCHANGED dl_zip
       ELSE /\ Return("True")
            /\ dl_out' = TRUE
            /\ dl_zip' = "absent"
            /\ UNCHANGED dl_failed
  /\ UNCHANGED <<dl_kind, dl_force, dl_file, dl_net, dl_pre, dl_calls>>
  /\ UNCHANGED <<mainvars, extvars>>

\* CmemsLoader.download and GfsLoader.download
CmemsDownload ==
  /\ dl_pc = "start"
  /\ dl_kind \in {"cmems", "gfs"}
  /\ Return(IF CmemsLoader_download(dl_out) THEN "True" ELSE "False")
  /\ UNCHANGED <<dl_kind, dl_force, dl_out, dl_zip, dl_file, dl_net, dl_failed,
                 dl_pre, dl_calls>>
  /\ UNCHANGED <<mainvars, extvars>>

\* GlobalReliefLoader.download: the folder is created when it is not there
ReliefStart ==
  /\ dl_pc = "start"
  /\ dl_kind = "global_relief"
  /\ \E fault \in {"none", "makedirs"} :
       IF ~ dl_out /\ fault = "makedirs"
       THEN /\ RaiseOut
            /\ UNCHANGED dl_out
       ELSE /\ fault = "none"
            /\ dl_out' = TRUE
            /\ dl_pc' = "relief_get"
            /\ UNCHANGED <<dl_result, dl_failed>>
  /\ UNCHANGED <<dl_kind, dl_force, dl_zip, dl_file, dl_net, dl_pre, dl_calls>>
  /\ UNCHANGED <<mainvars, extvars>>

\* GlobalReliefLoader.download: the file is fetched when it is not there
ReliefGet ==
  /\ dl_pc = "relief_get"
  /\ \E fault \in {"none", "request", "write"} :
       IF dl_file
       THEN /\ fault = "none"
            /\ Return("True")
            /\ UNCHANGED <<dl_file, dl_net, dl_failed>>
       ELSE /\ dl_net' = dl_net + 1
            /\ IF fault = "request"
               THEN /\ Return("False")
                    /\ dl_failed' = TRUE
                    /\ UNCHANGED dl_file
               ELSE IF fault = "write"
               THEN /\ Return("False")
                    /\ dl_failed' = TRUE
                    /\ dl_file' = TRUE
               ELSE /\ Return("True")
                    /\ dl_file' = TRUE
                    /\ UNCHANGED dl_failed
  /\ UNCHANGED <<dl_kind, dl_force, dl_out, dl_zip, dl_pre, dl_calls>>
  /\ UNCHANGED <<mainvars, extvars>>

\* the next run of main() builds a new loader and calls download() again
CallAgain ==
  /\ dl_pc = "returned"
  /\ dl_calls < MaxCalls
  /\ dl_calls' = dl_calls + 1
  /\ dl_pc' = "start"
  /\ dl_result' = "none"
  /\ dl_failed' = FALSE
  /\ dl_pre' = Snapshot
  /\ UNCHANGED <<dl_kind, dl_force, dl_out, dl_zip, dl_file, dl_net>>
  /\ UNCHANGED <<mainvars, extvars>>

NextDl ==
  \/ AnthroStart
  \/ ForceDelete
  \/ CheckCached
  \/ Get
  \/ Unzip
  \/ CmemsDownload
  \/ ReliefStart
  \/ ReliefGet
  \/ CallAgain

SpecDl == InitDl /\ [][NextDl]_vars

(***************************************************************************)
(* The builders driven with any descriptor (SpecBuild): the loop bodies of *)
(* add_products_to_odc and add_datasets_to_odc for one product name and    *)
(* one file, with a loader that returns the descriptors chosen at the      *)
(* start.                                                                  *)
(***************************************************************************)
MaxBands == 2       \* bands of a dataset descriptor

\* a band of a descriptor: 'path', and 'band' (1-based index), 'layer'
\* (variable name), both or none
BandShapes(path, i) ==
  LET nm == waves_measurements[i].name
  IN {[name |-> nm, path |-> path],
      [name |-> nm, path |-> path, band |-> i],
      [name |-> nm, path |-> path, layer |-> nm],
      [name |-> nm, path |-> path, band |-> i, layer |-> nm]}

BandLists(path) ==
  UNION {{bl \in [1..n -> UNION {BandShapes(path, i) : i \in 1..n}] :
            \A i \in 1..n : bl[i] \in BandShapes(path, i)} : n \in 1..MaxBands}

\* product descriptors: name and metadata document of any product, with the
\* 'measurements' that the builder reads or, as AnthroprotectLoader, 'bands'
ProductDescriptors ==
  {[create_product_metadata_eo3("cmems_waves", dn)
      EXCEPT !.metadata = _create_metadata_document(mn)] : dn, mn \in ProductNames}
  \cup
  {[name |-> dn, description |-> dn, metadata |-> _create_metadata_document(mn),
    bands |-> waves_measurements] : dn, mn \in ProductNames}

\* dataset descriptors: that of NetCDFLoader with any bands, and that of
\* AnthroprotectLoader, without a metadata document or with the document of
\* any product
DatasetDescriptors(path) ==
  LET base(bl) == [create_dataset_metadata_eo3("cmems_waves", "waves", path)
                     EXCEPT !.bands = bl]
      tif == anthro_create_dataset_metadata_eo3("s2", path)
  IN {base(bl) : bl \in BandLists(path)}
     \cup {update(base(bl), [metadata |-> _create_metadata_document(mn)]) :
             bl \in BandLists(path), mn \in ProductNames}
     \cup {tif}
     \cup {update(tif, [metadata |-> _create_metadata_document(mn)]) :
             mn \in ProductNames}

\* a dataset of the folder that an earlier run may have put into the index
OtherDataset == <<"waves", <<StemSeq[2], "nc">>>>

InitBuild ==
  /\ b_calls = 0
  /\ MapOff
  /\ StartOff
  /\ GeoOff
  /\ run = 0
  /\ pc = "off"
  /\ src = 1
  /\ pi = 1
  /\ di = 1
  /\ folder = [s \in Sources |-> DefaultFolder(DATASOURCES[s])]
  /\ product_names = [s \in Sources |-> <<DefaultProductName(DATASOURCES[s])>>]
  /\ dirs = {"waves"}
  /\ files = [d \in Folders |-> IF d = "waves" THEN {<<StemSeq[1], "nc">>} ELSE {}]
  /\ product_dataset_map = EmptyDict
  /\ index_products \in {{}, {"waves"}}
  /\ index_datasets \in {{}, {uuid5(OtherDataset)}}
  /\ product_files = EmptyDict
  /\ dataset_files = EmptyDict
  /\ log = << >>
  /\ product_adds = [n \in ProductNames |-> 0]
  /\ dataset_adds = [i \in {uuid5(p) : p \in Paths} |-> 0]
  /\ run_inserts = 0
  /\ prev_completed = FALSE
  /\ vanished = 0
  /\ faults = 0
  /\ sidecars_written = {}
  /\ dl_kind = "none"
  /\ dl_pc = "off"
  /\ dl_force = "unset"
  /\ dl_out = FALSE
  /\ dl_zip = "absent"
  /\ dl_file = FALSE
  /\ dl_result = "none"
  /\ dl_net = 0
  /\ dl_failed = FALSE
  /\ dl_pre = << >>
  /\ dl_calls = 0
  /\ b_pc = "ready"
  /\ b_name \in ProductNames
  /\ b_product_md \in ProductDescriptors
  /\ b_path = <<"waves", <<StemSeq[1], "nc">>>>
  /\ b_dataset_md \in DatasetDescriptors(b_path)
  /\ b_product_yaml = NotBuilt
  /\ b_dataset_yaml = NotBuilt
  /\ b_ids = {}

\* add_products_to_odc, the body of the loop for b_name
BuildProduct ==
  /\ b_pc = "ready"
  /\ IF ProductInIndex(b_name, index_products)
     THEN /\ b_pc' = "product_done"
          /\ UNCHANGED <<b_product_yaml, product_files, index_products, product_adds>>
     ELSE LET product_yaml == create_product_yaml_eo3(b_name, b_product_md)
              fname == product_filename("waves", b_name)
          IN /\ b_product_yaml' = product_yaml
             /\ IF IsExc(product_yaml)
                THEN /\ b_pc' = "crashed"
                     /\ UNCHANGED <<product_files, index_products, product_adds>>
                ELSE /\ product_files' =
                          IF ProductFileAbsent(fname, product_files)
                          THEN update(product_files, [k \in {fname} |-> product_yaml])
                          ELSE product_files
                     /\ index_products' = IndexAddProduct(index_products, product_yaml)
                     /\ product_adds' = [product_adds EXCEPT ![b_name] = @ + 1]
                     /\ b_pc' = "product_done"
  /\ UNCHANGED <<b_name, b_product_md, b_dataset_md, b_path, b_dataset_yaml, b_ids,
                 b_calls>>
  /\ UNCHANGED <<run, pc, src, pi, di, folder, product_names, dirs, files,
                 product_dataset_map, index_datasets, dataset_files, log,
                 dataset_adds, run_inserts, prev_completed, vanished, faults,
                 sidecars_written>>
  /\ UNCHANGED <<dlvars, mapvars, startvars, geovars>>

\* add_datasets_to_odc, the body of the inner loop for b_path; the loop comes
\* to the same file again in the next run
BuildDataset ==
  /\ b_pc = "product_done"
  /\ b_calls < MaxCalls
  /\ b_calls' = b_calls + 1
  /\ LET dataset_id == uuid5(b_path)
     IN IF DatasetInIndex(dataset_id, index_datasets)
        THEN /\ b_ids' = b_ids \cup {dataset_id}
             /\ log' = Append(log, Entry(1, "dataset_exists", b_path))
             /\ UNCHANGED <<b_dataset_yaml, dataset_files, index_datasets, dataset_adds>>
        ELSE \E fault \in {"none", "datasets.add"} :
             LET dataset_yaml == create_dataset_yaml_eo3(b_name, b_dataset_md)
                 written == ~ IsExc(dataset_yaml)
                 err == IF IsExc(dataset_yaml) THEN dataset_yaml
                        ELSE IF ~ Doc2Dataset(dataset_yaml, index_products)
                        THEN Raise("TypeError")
                        ELSE IF fault = "datasets.add" THEN Raise("DatabaseError")
                        ELSE Raise("none")
                 added == err.exc = "none"
             IN /\ fault = "datasets.add" => err.exc = "DatabaseError"
                /\ b_dataset_yaml' = dataset_yaml
                /\ b_ids' = b_ids \cup {dataset_id}
                              \cup (IF written THEN {dataset_yaml.id} ELSE {})
                /\ dataset_files' =
                     IF written
                     THEN update(dataset_files,
                                 [k \in {dataset_filename(b_path)} |-> dataset_yaml])
                     ELSE dataset_files
                /\ IF added
                   THEN /\ index_datasets' = IndexAddDataset(index_datasets, dataset_yaml)
                        /\ dataset_adds' = [dataset_adds EXCEPT ![dataset_yaml.id] = @ + 1]
                        /\ log' = Append(log, Entry(1, "dataset_added", b_path))
                   ELSE /\ UNCHANGED <<index_datasets, dataset_adds>>
                        /\ log' = Append(log, ErrEntry(1, "dataset_failed", b_path, err))
  /\ UNCHANGED <<b_pc, b_name, b_product_md, b_dataset_md, b_path, b_product_yaml>>
  /\ UNCHANGED <<run, pc, src, pi, di, folder, product_names, dirs, files,
                 product_dataset_map, index_products, product_files,
                 product_adds, run_inserts, prev_completed, vanished, faults,
                 sidecars_written>>
  /\ UNCHANGED <<dlvars, mapvars, startvars, geovars>>

NextBuild ==
  \/ BuildProduct
  \/ BuildDataset

SpecBuild == InitBuild /\ [][NextBuild]_vars

(***************************************************************************)
(* AnthroprotectLoader.create_product_dataset_map and what main() does     *)
(* with its map (SpecMap).  odc_importer/anthroprotect.py, odc.py.         *)
(***************************************************************************)
MaxTiles == 2       \* distinct '.tif' file names of the tiles subfolders

Subfolders == <<"s2", "s2_scl", "lcs">>

TifNames == {<<StemSeq[i], "tif">> : i \in 1..MaxTiles}

\* ANTHROPROTECT_PRODUCT_NAMES.split(' '), or the default when it is not set
NameChoices ==
  { <<"s2", "s2_scl", "lcs">>,
    <<"s2", "s2_scl", "lcs", "extra">>,
    <<"s2", "s2_scl">>,
    <<"s2", "s2", "lcs">>,
    <<"lcs", "s2", "s2_scl">> }

\* os.path.join(data_folder, 'tiles', subfolder) and 'investigative'
TilesFolder(subfolder) == <<"anthroprotect", "tiles", subfolder>>

InvestigativeFolder == <<"anthroprotect", "investigative">>

\* os.path.basename of os.path.join(folder, element)
basename(path) == path[2]

Basenames(datasets) == [i \in 1..Len(datasets) |-> basename(datasets[i])]

\* an assertion on the first two lists only
SameBasenames_firsttwo(d1, d2, d3) == Basenames(d1) = Basenames(d2)

\* assert [basenames of names[0]] == [those of names[1]] == [those of names[2]]
SameBasenames(d1, d2, d3) ==
  Basenames(d1) = Basenames(d2) /\ Basenames(d2) = Basenames(d3)

\* the '.tif' entries of a listing, with their folder
TifPaths(fld, listing) ==
  LET Sel(x) == endswith(x, "tif")
  IN [i \in 1..Len(SelectSeq(listing, Sel)) |-> <<fld, SelectSeq(listing, Sel)[i]>>]

\* the files of 'investigative' put in front of the datasets
AddInvestigative_first(datasets, inv) ==
  TifPaths(InvestigativeFolder, inv) \o datasets

\* product_dataset_map.get(self.product_names[0]) + [the '.tif' files of the
\* folder 'investigative']
AddInvestigative(datasets, inv) ==
  datasets \o TifPaths(InvestigativeFolder, inv)

\* the body of create_product_dataset_map for the listings l[1], l[2], l[3]
\* of the subfolders and the listing inv of 'investigative': an exception, or
\* the map and the product names logged as missing in it
anthro_create_product_dataset_map(names, l, inv) ==
  IF Len(names) < 3
  THEN Raise("IndexError")
  ELSE
    LET d(idx) == TifPaths(TilesFolder(Subfolders[idx]), l[idx])
        m1 == update(EmptyDict, [k \in {names[1]} |-> d(1)])
        m2 == update(m1, [k \in {names[2]} |-> d(2)])
        m3 == update(m2, [k \in {names[3]} |-> d(3)])
    IN IF ~ SameBasenames(m3[names[1]], m3[names[2]], m3[names[3]])
       THEN Raise("AssertionError")
       ELSE
         LET m4 == update(m3, [k \in {names[1]} |->
                                 AddInvestigative(m3[names[1]], inv)])
             Missing(n) == n \notin DOMAIN m4
         IN [product_dataset_map |-> m4, missing |-> SelectSeq(names, Missing)]

\* AnthroprotectLoader.create_product_metadata_eo3: 'bands' is bound only for
\* a name with one of the three prefixes
anthro_create_product_metadata_eo3(odc_product_name) ==
  IF NamePrefix(odc_product_name) = "none"
  THEN Raise("UnboundLocalError")
  ELSE [name |-> odc_product_name,
        description |-> odc_product_name,
        metadata |-> [product |-> [name |-> odc_product_name],
                      keywords |-> <<"AnthroProtect", "Wilderness", "Fennoscandia",
                                     NamePrefix(odc_product_name)>>,
                      links |-> <<"http://rs.ipb.uni-bonn.de/data/anthroprotect/">>],
        bands |-> NamePrefix(odc_product_name)]

\* the variables of SpecDl, download() not being looked at
DlOff ==
  /\ dl_kind = "none"
  /\ dl_pc = "off"
  /\ dl_force = "unset"
  /\ dl_out = FALSE
  /\ dl_zip = "absent"
  /\ dl_file = FALSE
  /\ dl_result = "none"
  /\ dl_net = 0
  /\ dl_failed = FALSE
  /\ dl_pre = << >>
  /\ dl_calls = 0

InitMap ==
  /\ BuildOff
  /\ DlOff
  /\ StartOff
  /\ GeoOff
  /\ run = 1
  /\ pc = "off"
  /\ src = 1
  /\ pi = 1
  /\ di = 1
  /\ folder = [s \in Sources |-> DefaultFolder(DATASOURCES[s])]
  /\ product_names = [s \in Sources |-> <<DefaultProductName(DATASOURCES[s])>>]
  /\ dirs = {}
  /\ files = [d \in Folders |-> {}]
  /\ product_dataset_map = EmptyDict
  /\ index_products \in {{}, {"s2", "s2_scl", "lcs", "extra"}}
  /\ index_datasets = {}
  /\ product_files = EmptyDict
  /\ dataset_files = EmptyDict
  /\ log = << >>
  /\ product_adds = [n \in ProductNames |-> 0]
  /\ dataset_adds = [i \in {uuid5(p) : p \in Paths} |-> 0]
  /\ run_inserts = 0
  /\ prev_completed = FALSE
  /\ vanished = 0
  /\ faults = 0
  /\ sidecars_written = {}
  /\ m_pc = "map"
  /\ m_names \in NameChoices
  /\ m_tiles \in [1..3 -> SUBSET TifNames]
  /\ m_yaml \in BOOLEAN
  /\ m_invest \in SUBSET {<<StemSeq[1], "tif">>}
  /\ m_i = 1

\* main(): 'if len(loader.product_dataset_map) == 0:
\* loader.create_product_dataset_map(global_data_folder)'; os.listdir returns
\* the entries of each folder in any order
MapBuild ==
  /\ m_pc = "map"
  /\ \E l1 \in Listings(m_tiles[1] \cup
                        (IF m_yaml THEN {<<"s2", "odc-product.yaml">>} ELSE {})),
        l2 \in Listings(m_tiles[2]), l3 \in Listings(m_tiles[3]),
        inv \in Listings(m_invest) :
       LET r == anthro_create_product_dataset_map(m_names, <<l1, l2, l3>>, inv)
       IN IF IsExc(r)
          THEN /\ m_pc' = "crashed"
               /\ log' = Append(log, ErrEntry(1, "uncaught", "create_product_dataset_map", r))
               /\ UNCHANGED product_dataset_map
          ELSE /\ m_pc' = "products"
               /\ log' = log \o [i \in 1..Len(r.missing) |->
                                   Entry(1, "map_missing", r.missing[i])]
               /\ product_dataset_map' = r.product_dataset_map
  /\ UNCHANGED <<m_names, m_tiles, m_yaml, m_invest, m_i>>
  /\ UNCHANGED <<run, pc, src, pi, di, folder, product_names, dirs, files,
                 index_products, index_datasets, product_files, dataset_files,
                 product_adds, dataset_adds, run_inserts, prev_completed, vanished,
                 faults, sidecars_written>>
  /\ UNCHANGED <<dlvars, buildvars, startvars, geovars>>

\* add_products_to_odc with the AnthroProtect loader: the body of the loop
MapProductStep ==
  /\ m_pc = "products"
  /\ LET odc_product == m_names[m_i]
         product_metadata == anthro_create_product_metadata_eo3(odc_product)
         product_yaml == IF IsExc(product_metadata) THEN product_metadata
                         ELSE create_product_yaml_eo3(odc_product, product_metadata)
         fname == product_filename("anthroprotect", odc_product)
         last == m_i = Len(m_names)
     IN IF ProductInIndex(odc_product, index_products)
        THEN /\ log' = Append(log, Entry(1, "product_exists", odc_product))
             /\ m_pc' = IF last THEN "datasets" ELSE "products"
             /\ m_i' = IF last THEN 1 ELSE m_i + 1
             /\ UNCHANGED <<index_products, product_files>>
        ELSE IF IsExc(product_yaml)
        THEN /\ log' = Append(log, ErrEntry(1, "uncaught", odc_product, product_yaml))
             /\ m_pc' = "crashed"
             /\ UNCHANGED <<m_i, index_products, product_files>>
        ELSE /\ product_files' =
                  IF ProductFileAbsent(fname, product_files)
                  THEN update(product_files, [k \in {fname} |-> product_yaml])
                  ELSE product_files
             /\ index_products' = IndexAddProduct(index_products, product_yaml)
             /\ log' = Append(log, Entry(1, "product_added", odc_product))
             /\ m_pc' = IF last THEN "datasets" ELSE "products"
             /\ m_i' = IF last THEN 1 ELSE m_i + 1
  /\ UNCHANGED <<m_names, m_tiles, m_yaml, m_invest>>
  /\ UNCHANGED <<run, pc, src, pi, di, folder, product_names, dirs, files,
                 product_dataset_map, index_datasets, dataset_files,
                 product_adds, dataset_adds, run_inserts, prev_completed, vanished,
                 faults, sidecars_written>>
  /\ UNCHANGED <<dlvars, buildvars, startvars, geovars>>

\* the inner loop of add_datasets_to_odc over the files of one product, from
\* position j on: the index, the dataset files and the log it leaves
RECURSIVE AnthroDatasetLoop(_, _, _, _, _, _)
AnthroDatasetLoop(odc_product, datasets, j, ids, on_disk, lg) ==
  IF j > Len(datasets)
  THEN [ids |-> ids, on_disk |-> on_disk, log |-> lg]
  ELSE
    LET odc_dataset == datasets[j]
        dataset_metadata == anthro_create_dataset_metadata_eo3(odc_product, odc_dataset)
        dataset_yaml == IF IsExc(dataset_metadata) THEN dataset_metadata
                        ELSE create_dataset_yaml_eo3(odc_product, dataset_metadata)
    IN IF DatasetInIndex(uuid5(odc_dataset), ids)
       THEN AnthroDatasetLoop(odc_product, datasets, j + 1, ids, on_disk,
                              Append(lg, Entry(1, "dataset_exists", odc_dataset)))
       ELSE IF IsExc(dataset_yaml)
       THEN AnthroDatasetLoop(odc_product, datasets, j + 1, ids, on_disk,
                              Append(lg, ErrEntry(1, "dataset_failed", odc_dataset,
                                                  dataset_yaml)))
       ELSE IF ~ Doc2Dataset(dataset_yaml, index_products)
       THEN AnthroDatasetLoop(odc_product, datasets, j + 1, ids,
                              update(on_disk, [k \in {dataset_filename(odc_dataset)}
                                                 |-> dataset_yaml]),
                              Append(lg, ErrEntry(1, "dataset_failed", odc_dataset,
                                                  Raise("TypeError"))))
       ELSE AnthroDatasetLoop(odc_product, datasets, j + 1,
                              IndexAddDataset(ids, dataset_yaml),
                              update(on_disk, [k \in {dataset_filename(odc_dataset)}
                                                 |-> dataset_yaml]),
                              Append(lg, Entry(1, "dataset_added", odc_dataset)))

\* add_datasets_to_odc with the AnthroProtect loader: one pass of the outer
\* loop, 'for ... in enumerate(odc_product_dataset_map[odc_product])'
MapDatasetStep ==
  /\ m_pc = "datasets"
  /\ LET odc_product == m_names[m_i]
         last == m_i = Len(m_names)
     IN IF odc_product \notin DOMAIN product_dataset_map
        THEN /\ m_pc' = "crashed"
             /\ log' = Append(log, ErrEntry(1, "uncaught", odc_product, Raise("KeyError")))
             /\ UNCHANGED <<m_i, index_datasets, dataset_files>>
        ELSE LET r == AnthroDatasetLoop(odc_product, product_dataset_map[odc_product],
                                        1, index_datasets, dataset_files, log)
             IN /\ index_datasets' = r.ids
                /\ dataset_files' = r.on_disk
                /\ log' = r.log
                /\ m_pc' = IF last THEN "done" ELSE "datasets"
                /\ m_i' = IF last THEN m_i ELSE m_i + 1
  /\ UNCHANGED <<m_names, m_tiles, m_yaml, m_invest>>
  /\ UNCHANGED <<run, pc, src, pi, di, folder, product_names, dirs, files,
                 product_dataset_map, index_products, product_files,
                 product_adds, dataset_adds, run_inserts, prev_completed, vanished,
                 faults, sidecars_written>>
  /\ UNCHANGED <<dlvars, buildvars, startvars, geovars>>

NextMap ==
  \/ MapBuild
  \/ MapProductStep
  \/ MapDatasetStep

SpecMap == InitMap /\ [][NextMap]_vars

(***************************************************************************)
(* Properties of main() and of the reconciliation engine (Spec)            *)
(***************************************************************************)
ProductKinds == {"product_added", "product_exists"}

DatasetKinds == {"dataset_missing", "dataset_exists", "dataset_added", "dataset_failed"}

\* the errors of the I/O calls, as opposed to those the builders raise
IOErrors == {"OSError", "PermissionError", "DatabaseError"}

\* the positions of the log at which source s logged a message of these kinds
LogAt(s, kinds) == {i \in 1..Len(log) : log[i].src = s /\ log[i].kind \in kinds}

\* the messages of these kinds that source s logged about file p
LogAbout(s, kinds, p) == {i \in LogAt(s, kinds) : log[i].what = p}

\* the file references of the current source that the dataset loop is done
\* with: those before its position, all of them once main() is through
PassedFiles ==
  LET names == product_names[src]
      m == product_dataset_map
      ListOf(i) == IF names[i] \in DOMAIN m THEN m[names[i]] ELSE << >>
      Upto(i, n) == {ListOf(i)[j] : j \in 1..n}
  IN IF pc = "done"
     THEN UNION {Upto(i, Len(ListOf(i))) : i \in 1..Len(names)}
     ELSE IF pc = "datasets"
     THEN Upto(pi, di - 1) \cup UNION {Upto(i, Len(ListOf(i))) : i \in 1..(pi - 1)}
     ELSE {}

\* C1: when a run of main() went through to its end, the run that follows it
\* inserts no product and no dataset into the index.
C1_SecondRunInsertsNothing == prev_completed => run_inserts = 0

\* a second run has found in the index the product that the first run inserted
C1_Witness ==
  /\ run = 2
  /\ prev_completed
  /\ pc = "done"
  /\ \E i \in 1..Len(log) :
       log[i].kind = "product_exists" /\ product_adds[log[i].what] = 1

\* C2: over all runs, each product name is inserted into the index at most
\* once and each dataset id is inserted at most once.
C2_InsertedAtMostOnce ==
  /\ \A n \in DOMAIN product_adds : product_adds[n] <= 1
  /\ \A i \in DOMAIN dataset_adds : dataset_adds[i] <= 1

\* two sources declare the same product name over the same folder; the first
\* inserted it, the second found it, and a second run came to its end
C2_Witness ==
  /\ run = 2
  /\ pc = "done"
  /\ product_names[1] = product_names[2]
  /\ folder[1] = folder[2]
  /\ product_adds[product_names[1][1]] = 1
  /\ LogAt(2, {"product_exists"}) # {}
  /\ LogAt(2, DatasetKinds) # {}

\* C3: when a source logs anything about a dataset, every product name of
\* that source has been reconciled before, and none is reconciled after.
C3_ProductsBeforeDatasets ==
  \A j \in 1..Len(log) :
    log[j].kind \in DatasetKinds =>
      /\ Cardinality({i \in LogAt(log[j].src, ProductKinds) : i < j})
           = Len(product_names[log[j].src])
      /\ \A i \in LogAt(log[j].src, ProductKinds) : i < j

\* a source inserted its product and then tried to insert a dataset
C3_Witness ==
  \E i, j \in 1..Len(log) :
    /\ i < j
    /\ log[i].src = log[j].src
    /\ log[i].kind = "product_added"
    /\ log[j].kind = "dataset_failed"

\* C4, as claimed: when no I/O call of the dataset loop failed, every file
\* reference the loop is done with either was missing, with exactly one skip
\* message and no insertion, or is registered in the index.
C4_ExistingFilesRegistered ==
  (\A i \in LogAt(src, {"dataset_failed"}) : log[i].err \notin IOErrors) =>
    \A p \in PassedFiles :
      \/ /\ Cardinality(LogAbout(src, {"dataset_missing"}, p)) = 1
         /\ LogAbout(src, {"dataset_added"}, p) = {}
      \/ /\ LogAbout(src, {"dataset_missing"}, p) = {}
         /\ uuid5(p) \in index_datasets

GuardedCalls ==
  {"os.listdir", "open(product_filename, 'w')", "dc.list_products",
   "dc.index.datasets.get", "add_datasets_to_odc"}

\* C6, as claimed: main() is never ended by an exception of folder
\* enumeration, of the product file write, of an index query, or of the
\* description or the file write of a dataset.
C6_NoIOExceptionEndsMain ==
  pc = "crashed" => log[Len(log)].what \notin GuardedCalls

\* C7: a source whose download() returned False logs its warning and nothing
\* else in this run (no map, no product, no dataset), and main() goes on
\* with the next source.
C7_FailedDownloadSkipsSource ==
  \A i \in 1..Len(log) :
    log[i].kind = "folder_missing" =>
      /\ i < Len(log)
      /\ log[i + 1].kind = "download_failed"
      /\ {j \in 1..Len(log) : log[j].src = log[i].src} = {i, i + 1}
      /\ IF log[i].src < Len(DATASOURCES)
         THEN src > log[i].src
         ELSE pc = "done"

\* the download of the first source failed and the second source was mapped
C7_Witness ==
  \E i, j \in 1..Len(log) :
    /\ i < j
    /\ log[i].src = 1
    /\ log[i].kind = "download_failed"
    /\ log[j].src = 2
    /\ log[j].kind = "map_created"

\* C10: a product file that exists is never written again: no step of any run
\* removes it or changes its content.
C10_ProductFileNeverRewritten ==
  [][\A f \in DOMAIN product_files :
       f \in DOMAIN product_files' /\ product_files'[f] = product_files[f]]_vars

\* a product was inserted into the index while its product file was already
\* there, and the file still has its earlier content
C10_Witness ==
  /\ product_filename("waves", "waves") \in DOMAIN product_files
  /\ product_files[product_filename("waves", "waves")] = OldProductFile
  /\ product_adds["waves"] = 1

(***************************************************************************)
(* Properties of download() (SpecDl)                                       *)
(***************************************************************************)
\* C8, as claimed: AnthroprotectLoader.download never raises, and it returns
\* False when an I/O step failed or the hash of the archive was wrong.
C8_DownloadNeverRaises ==
  dl_kind = "anthroprotect" =>
    /\ dl_result # "raised"
    /\ (dl_pc = "returned" /\ dl_failed) => dl_result = "False"

\* the call began with the output folder in place and no force flag
FolderInPlace == dl_pc # "off" /\ dl_pre.out /\ ~ force_download(dl_force)

\* the call has not made a request and the disk is as it was when it began
NothingTouched ==
  /\ dl_net = dl_pre.net
  /\ dl_out = dl_pre.out
  /\ dl_zip = dl_pre.zip
  /\ dl_file = dl_pre.file

\* C9, as claimed: with the output folder in place and no force flag,
\* download() of whatever loader returns True, makes no request and leaves
\* the disk as it was.
C9_ExistingFolderNoDownload ==
  FolderInPlace =>
    /\ NothingTouched
    /\ dl_pc = "returned" => dl_result = "True"

\* C9, amended: the same for the AnthroProtect, CMEMS and GFS loaders.
C9_ExistingFolderNoDownload_Amended ==
  (FolderInPlace /\ dl_kind \in {"anthroprotect", "cmems", "gfs"}) =>
    /\ NothingTouched
    /\ dl_pc = "returned" => dl_result = "True"

\* the AnthroProtect loader returned True with the folder and an archive in
\* place, on a second call as well
C9_Witness ==
  /\ dl_kind = "anthroprotect"
  /\ FolderInPlace
  /\ dl_pre.zip # "absent"
  /\ dl_calls = 2
  /\ dl_pc = "returned"
  /\ dl_result = "True"

(***************************************************************************)
(* Properties of the dataset files and of the documents (Spec)             *)
(***************************************************************************)
\* the messages of the dataset loop about a file that was there when the
\* loop looked at it
ExistingKinds == {"dataset_exists", "dataset_added", "dataset_failed"}

\* C11: in every run, the dataset yaml file of every dataset of the map whose
\* source file exists is written during that run, whether or not the dataset
\* id is already in the index.
C11_SidecarWrittenEveryRun ==
  \A i \in 1..Len(log) :
    log[i].kind \in ExistingKinds
      => dataset_filename(log[i].what) \in sidecars_written

\* C12: for every file of the product-dataset map a dataset document is
\* built, and every key of the product's metadata document is a top-level key
\* of it, with an equal value.
C12_DatasetCarriesProductMetadata ==
  pc \in {"products", "datasets"} =>
    \A n \in DOMAIN product_dataset_map :
      \A i \in 1..Len(product_dataset_map[n]) :
        LET kind == DATASOURCES[src]
            P == create_product_yaml_eo3(n, create_product_metadata_eo3(kind, n))
            D == create_dataset_yaml_eo3(
                   n, create_dataset_metadata_eo3(kind, n, product_dataset_map[n][i]))
        IN /\ ~ IsExc(P)
           /\ ~ IsExc(D)
           /\ \A k \in DOMAIN P.metadata :
                k \in DOMAIN D /\ D[k] = P.metadata[k]

\* C13: the dataset descriptor that the loader returns for a file of the map
\* names, as product_name, the product under which the file was listed.
C13_DescriptorNamesItsProduct ==
  pc \in {"products", "datasets"} =>
    \A n \in DOMAIN product_dataset_map :
      \A i \in 1..Len(product_dataset_map[n]) :
        create_dataset_metadata_eo3(DATASOURCES[src], n,
                                    product_dataset_map[n][i]).product_name = n

(***************************************************************************)
(* Properties of the builders (SpecBuild)                                  *)
(***************************************************************************)
\* the requested name, the descriptor's name and the name in its metadata
\* document are the same
NamesAgree ==
  /\ b_name = b_product_md.name
  /\ b_product_md.name = b_product_md.metadata.product.name

IsDocument(x) == DOMAIN x # {} /\ ~ IsExc(x)

\* C14: create_product_yaml_eo3 returns a product document only when the three
\* names are equal; when they are not, it fails, and no product file has been
\* written and nothing has been given to the index.
C14_ProductNamesMustAgree ==
  /\ IsDocument(b_product_yaml) => NamesAgree
  /\ (DOMAIN b_product_yaml # {} /\ ~ NamesAgree) =>
       /\ IsExc(b_product_yaml)
       /\ b_pc = "crashed"
       /\ product_files = EmptyDict
       /\ b_name \notin index_products
       /\ \A n \in ProductNames : product_adds[n] = 0

\* the builder was called with a descriptor whose metadata document names
\* another product, and failed on its assertion
C14_Witness ==
  /\ b_name = b_product_md.name
  /\ b_product_md.name # b_product_md.metadata.product.name
  /\ IsExc(b_product_yaml)
  /\ b_product_yaml.exc = "AssertionError"
  /\ b_pc = "crashed"

\* exactly one of the keys 'band' and 'layer'
OneOfBandLayer(e) == ("band" \in DOMAIN e) # ("layer" \in DOMAIN e)

LogOf(kinds, what) ==
  {k \in 1..Len(log) : log[k].kind \in kinds /\ log[k].what = what}

\* C17: when the map has been built and a declared product name has no entry
\* in it, exactly one message has been logged for the name and no exception
\* is raised for it, neither by the map builder nor by the engine that goes
\* through the datasets of the declared names.
C17_MissingEntryLoggedNotRaised ==
  (m_pc # "off" /\ DOMAIN product_dataset_map # {}) =>
    \A i \in 1..Len(m_names) :
      m_names[i] \notin DOMAIN product_dataset_map =>
        /\ Cardinality(LogOf({"map_missing"}, m_names[i])) = 1
        /\ \A k \in LogOf({"uncaught"}, m_names[i]) : log[k].err # "KeyError"

\* the three subfolders do not hold the same '.tif' file names
TilesDiffer == m_tiles[1] # m_tiles[2] \/ m_tiles[2] # m_tiles[3]

\* C18: if the sets of '.tif' file names of tiles/s2, tiles/s2_scl and
\* tiles/lcs differ, create_product_dataset_map fails, the loader's map stays
\* unset and nothing of the source is indexed.
C18_DifferingTilesFailMap ==
  (m_pc \notin {"off", "map"} /\ TilesDiffer) =>
    /\ m_pc = "crashed"
    /\ DOMAIN product_dataset_map = {}
    /\ \A k \in 1..Len(log) : log[k].kind \notin ProductKinds \cup DatasetKinds
    /\ index_datasets = {}
    /\ DOMAIN product_files = {}
    /\ DOMAIN dataset_files = {}

(***************************************************************************)
(* The start of main(): the database connection, the initialisation of the *)
(* index, the global data folder (SpecStart).  odc.py, utils.py.           *)
(***************************************************************************)
MaxRetries == 3     \* the largest args.max_retries looked at

\* the values the code passes to exit() and sys.exit()
EXIT_NO_CONNECTION == 1024
EXIT_INIT_FAILED == 512
EXIT_CHECK_FAILED == 256
EXIT_FOLDER_NOT_WRITABLE == 32

\* the exit status of the process for the value given to exit(): the
\* operating system keeps the low 8 bits
ExitStatus(value) == value % 256

\* the status of an interpreter that ends with an uncaught exception
UncaughtStatus == 1

\* the process-level failure classes and the values the code exits with
ExitValues ==
  [db_unreachable |-> {EXIT_NO_CONNECTION},
   db_init |-> {EXIT_INIT_FAILED, EXIT_CHECK_FAILED},
   data_folder |-> {EXIT_FOLDER_NOT_WRITABLE}]

\* exit(value) for a failure of class cause
Exit(cause, value) ==
  /\ s_pc' = "exited"
  /\ s_cause' = cause
  /\ s_value' = value
  /\ s_status' = ExitStatus(value)

InitStart ==
  /\ BuildOff
  /\ MapOff
  /\ DlOff
  /\ GeoOff
  /\ run = 0
  /\ pc = "off"
  /\ src = 1
  /\ pi = 1
  /\ di = 1
  /\ folder = [s \in Sources |-> DefaultFolder(DATASOURCES[s])]
  /\ product_names = [s \in Sources |-> <<DefaultProductName(DATASOURCES[s])>>]
  /\ dirs = {}
  /\ files = [d \in Folders |-> {}]
  /\ product_dataset_map = EmptyDict
  /\ index_products = {}
  /\ index_datasets = {}
  /\ product_files = EmptyDict
  /\ dataset_files = EmptyDict
  /\ log = << >>
  /\ product_adds = [n \in ProductNames |-> 0]
  /\ dataset_adds = [i \in {uuid5(p) : p \in Paths} |-> 0]
  /\ run_inserts = 0
  /\ prev_completed = FALSE
  /\ vanished = 0
  /\ faults = 0
  /\ sidecars_written = {}
  /\ s_pc = "connect"
  /\ max_retries \in 0..MaxRetries
  /\ times_slept = 0
  /\ db_conn_ok = FALSE
  /\ s_folder \in {"missing", "readonly", "writable"}
  /\ s_cause = "none"
  /\ s_value = -1
  /\ s_status = -1

\* one turn of the while loop of main(): verify_database_connection returns
\* True, returns False, or psycopg2.connect raises and nothing catches it
CheckConnection ==
  /\ s_pc = "connect"
  /\ times_slept < max_retries
  /\ \E result \in {"True", "False", "raise"} :
       CASE result = "True" ->
              /\ db_conn_ok' = TRUE
              /\ s_pc' = "init_db"
              /\ log' = Append(log, Entry(0, "db_ok", "database"))
              /\ UNCHANGED <<times_slept, s_cause, s_value, s_status>>
         [] result = "False" ->
              /\ times_slept' = times_slept + 1
              /\ log' = Append(log, Entry(0, "db_closed", "database"))
              /\ UNCHANGED <<db_conn_ok, s_pc, s_cause, s_value, s_status>>
         [] result = "raise" ->
              /\ s_pc' = "exited"
              /\ s_cause' = "uncaught"
              /\ s_status' = UncaughtStatus
              /\ log' = Append(log, ErrEntry(0, "uncaught", "database",
                                             Raise("OperationalError")))
              /\ UNCHANGED <<times_slept, db_conn_ok, s_value>>
  /\ UNCHANGED <<max_retries, s_folder>>
  /\ UNCHANGED <<run, pc, src, pi, di, folder, product_names, dirs, files,
                 product_dataset_map, index_products, index_datasets,
                 product_files, dataset_files, product_adds, dataset_adds,
                 run_inserts, prev_completed, vanished, faults, sidecars_written>>
  /\ UNCHANGED <<dlvars, buildvars, mapvars, geovars>>

\* the while loop has ended without a connection: exit(1024)
NoConnection ==
  /\ s_pc = "connect"
  /\ ~ (times_slept < max_retries)
  /\ ~ db_conn_ok
  /\ log' = Append(log, Entry(0, "db_unreachable", "database"))
  /\ Exit("db_unreachable", EXIT_NO_CONNECTION)
  /\ UNCHANGED <<max_retries, times_slept, db_conn_ok, s_folder>>
  /\ UNCHANGED <<run, pc, src, pi, di, folder, product_names, dirs, files,
                 product_dataset_map, index_products, index_datasets,
                 product_files, dataset_files, product_adds, dataset_adds,
                 run_inserts, prev_completed, vanished, faults, sidecars_written>>
  /\ UNCHANGED <<dlvars, buildvars, mapvars, geovars>>

\* ensure_odc_connection_and_database_initialization: the return code and
\* the output of 'datacube system check', the return code of 'system init'
EnsureInitialization ==
  /\ s_pc = "init_db"
  /\ \E check_rc \in {0, 1}, not_initialised \in BOOLEAN, init_rc \in {0, 1} :
       IF check_rc # 0
       THEN IF not_initialised
            THEN IF init_rc # 0
                 THEN Exit("db_init", EXIT_INIT_FAILED)
                 ELSE /\ s_pc' = "folder"
                      /\ UNCHANGED <<s_cause, s_value, s_status>>
            ELSE Exit("db_init", EXIT_CHECK_FAILED)
       ELSE /\ s_pc' = "folder"
            /\ UNCHANGED <<s_cause, s_value, s_status>>
  /\ UNCHANGED <<max_retries, times_slept, db_conn_ok, s_folder, log>>
  /\ UNCHANGED <<run, pc, src, pi, di, folder, product_names, dirs, files,
                 product_dataset_map, index_products, index_datasets,
                 product_files, dataset_files, product_adds, dataset_adds,
                 run_inserts, prev_completed, vanished, faults, sidecars_written>>
  /\ UNCHANGED <<dlvars, buildvars, mapvars, geovars>>

\* check_global_data_folder, after which main() turns to the data sources
CheckGlobalDataFolder ==
  /\ s_pc = "folder"
  /\ IF s_folder = "missing"
     THEN /\ log' = Append(log, Entry(0, "folder_missing", "data"))
          /\ s_pc' = "sources"
          /\ UNCHANGED <<s_cause, s_value, s_status>>
     ELSE IF s_folder = "readonly"
     THEN /\ log' = Append(log, Entry(0, "folder_readonly", "data"))
          /\ Exit("data_folder", EXIT_FOLDER_NOT_WRITABLE)
     ELSE /\ log' = log
          /\ s_pc' = "sources"
          /\ UNCHANGED <<s_cause, s_value, s_status>>
  /\ UNCHANGED <<max_retries, times_slept, db_conn_ok, s_folder>>
  /\ UNCHANGED <<run, pc, src, pi, di, folder, product_names, dirs, files,
                 product_dataset_map, index_products, index_datasets,
                 product_files, dataset_files, product_adds, dataset_adds,
                 run_inserts, prev_completed, vanished, faults, sidecars_written>>
  /\ UNCHANGED <<dlvars, buildvars, mapvars, geovars>>

NextStart ==
  \/ CheckConnection
  \/ NoConnection
  \/ EnsureInitialization
  \/ CheckGlobalDataFolder

SpecStart == InitStart /\ [][NextStart]_vars

\* the failure classes other than the one that ended the process
OtherClasses == DOMAIN ExitValues \ {s_cause}

\* C19: a process ended by one of the three failure classes reports a status
\* that is not zero and that no other class reports, the status being the
\* low 8 bits of the value passed to exit; and main() does not reach the data
\* sources with a data folder that is missing or not writable.
C19_DistinctNonzeroStatuses ==
  /\ (s_pc = "exited" /\ s_cause \in DOMAIN ExitValues) =>
        /\ s_status # 0
        /\ \A c \in OtherClasses :
             \A v \in ExitValues[c] : s_status # ExitStatus(v)
  /\ s_pc = "sources" => s_folder = "writable"


\* C20: with the force flag set, AnthroprotectLoader.download has deleted the
\* output folder and the archive when the download starts, never takes the
\* branch that reuses a folder or an archive found on the disk, and does not
\* end, by a return or otherwise, without having made a download request.
C20_ForceAlwaysDownloads ==
  (dl_kind = "anthroprotect" /\ force_download(dl_force)) =>
    /\ dl_pc = "get" => (~ dl_out /\ dl_zip = "absent")
    /\ dl_pc # "check_sha256"
    /\ dl_pc \in {"unzip", "returned"} => dl_net > dl_pre.net


(***************************************************************************)
(* Properties of the cached archive (SpecDl)                               *)
(***************************************************************************)
\* download() was called with the archive on the disk, no output folder and
\* the force flag off
CachedArchive ==
  /\ dl_kind = "anthroprotect"
  /\ dl_pc # "off"
  /\ ~ force_download(dl_force)
  /\ ~ dl_pre.out
  /\ dl_pre.zip # "absent"

MapBuilt == m_pc \in {"products", "datasets", "done"} \/
            (m_pc = "crashed" /\ DOMAIN product_dataset_map # {})

\* the first three configured product names differ from each other
DistinctNames ==
  /\ Len(m_names) >= 3
  /\ m_names[1] # m_names[2]
  /\ m_names[1] # m_names[3]
  /\ m_names[2] # m_names[3]

\* the members of a list of datasets, and the list being free of repetitions
Members(datasets) == {datasets[i] : i \in 1..Len(datasets)}

NoRepetition(datasets) == Cardinality(Members(datasets)) = Len(datasets)

\* the file references of the '.tif' files S of a folder
RefsOf(fld, S) == {<<fld, n>> : n \in S}

\* C22: in the map that create_product_dataset_map builds, the second and
\* the third product hold the '.tif' files of tiles/s2_scl and tiles/lcs, and
\* the first product holds the '.tif' files of tiles/s2 followed by the '.tif'
\* files of 'investigative'; no other file is in the map.
C22_MapOfTilesAndInvestigative ==
  (MapBuilt /\ DistinctNames) =>
    LET first == product_dataset_map[m_names[1]]
        n1 == Cardinality(m_tiles[1])
    IN /\ Len(first) = n1 + Cardinality(m_invest)
       /\ NoRepetition(first)
       /\ {first[i] : i \in 1..n1} = RefsOf(TilesFolder("s2"), m_tiles[1])
       /\ {first[i] : i \in (n1 + 1)..Len(first)} =
             RefsOf(InvestigativeFolder, m_invest)
       /\ \A k \in 2..3 :
            /\ NoRepetition(product_dataset_map[m_names[k]])
            /\ Members(product_dataset_map[m_names[k]]) =
                  RefsOf(TilesFolder(Subfolders[k]), m_tiles[k])

C22_Witness ==
  /\ MapBuilt
  /\ DistinctNames
  /\ m_yaml
  /\ m_tiles[1] = TifNames
  /\ m_invest # {}
  /\ Len(product_dataset_map[m_names[1]]) = MaxTiles + 1
  /\ Len(product_dataset_map[m_names[2]]) = MaxTiles


\* the assert of create_product_dataset_map has failed
AssertFailed ==
  \E k \in LogOf({"uncaught"}, "create_product_dataset_map") :
    log[k].err = "AssertionError"

\* C23: when tiles/s2, tiles/s2_scl and tiles/lcs hold the same set of '.tif'
\* file names, the assert of create_product_dataset_map does not fail,
\* whatever the order in which os.listdir returns the names of each folder.
C23_SameSetsPassCheck ==
  (m_pc \notin {"off", "map"} /\ ~ TilesDiffer) => ~ AssertFailed


(***************************************************************************)
(* create_dataset_metadata_eo3 of both adapter families on files with and  *)
(* without their geospatial metadata (SpecGeo).  loaders/netcdf.py,        *)
(* anthroprotect.py.                                                       *)
(***************************************************************************)
MaxSide == 3        \* the largest height and width of a raster

Families == {"netcdf", "geotiff"}

\* what the libraries may read from a file of the family: a NetCDF file may
\* lack the grid mapping (CRS), the latitude/longitude coordinates or the
\* time coordinate; a GeoTIFF may lack the CRS or the georeferencing
FileFacts(family) ==
  {update(GeoFacts, f) :
     f \in [crs : IF family = "netcdf" THEN {"CRS(EPSG:4326)", "NoneType"}
                  ELSE CrsObjects,
            has_coords : IF family = "netcdf" THEN BOOLEAN ELSE {TRUE},
            has_time : IF family = "netcdf" THEN BOOLEAN ELSE {TRUE},
            georeferenced : IF family = "geotiff" THEN BOOLEAN ELSE {TRUE},
            height : 1..MaxSide,
            width : 1..MaxSide]}

\* the file that is described, and the product it is listed under
GeoDataset(family) ==
  IF family = "netcdf" THEN <<"waves", <<StemSeq[1], "nc">>>>
  ELSE <<TilesFolder("s2"), <<StemSeq[1], "tif">>>>

InitGeo ==
  /\ BuildOff
  /\ MapOff
  /\ DlOff
  /\ StartOff
  /\ run = 0
  /\ pc = "off"
  /\ src = 1
  /\ pi = 1
  /\ di = 1
  /\ folder = [s \in Sources |-> DefaultFolder(DATASOURCES[s])]
  /\ product_names = [s \in Sources |-> <<DefaultProductName(DATASOURCES[s])>>]
  /\ dirs = {}
  /\ files = [d \in Folders |-> {}]
  /\ product_dataset_map = EmptyDict
  /\ index_products = {}
  /\ index_datasets = {}
  /\ product_files = EmptyDict
  /\ dataset_files = EmptyDict
  /\ log = << >>
  /\ product_adds = [n \in ProductNames |-> 0]
  /\ dataset_adds = [i \in {uuid5(p) : p \in Paths} |-> 0]
  /\ run_inserts = 0
  /\ prev_completed = FALSE
  /\ vanished = 0
  /\ faults = 0
  /\ sidecars_written = {}
  /\ g_pc = "file"
  /\ g_family \in Families
  /\ g_facts \in FileFacts(g_family)
  /\ g_md = NotBuilt

\* loader.create_dataset_metadata_eo3(odc_product, odc_dataset)
Describe ==
  /\ g_pc = "file"
  /\ g_pc' = "described"
  /\ g_md' = IF g_family = "netcdf"
             THEN netcdf_dataset_metadata(g_facts, "cmems_waves", "waves",
                                          GeoDataset(g_family))
             ELSE anthro_dataset_metadata(g_facts, "s2", GeoDataset(g_family))
  /\ UNCHANGED <<g_family, g_facts>>
  /\ UNCHANGED <<mainvars, dlvars, buildvars, mapvars, startvars>>

NextGeo == Describe

SpecGeo == InitGeo /\ [][NextGeo]_vars

\* C24: the descriptor of a raster of height H and width W has the shape
\* [H, W], rows first, in both adapter families.
C24_ShapeRowsFirst ==
  (g_pc = "described" /\ ~ IsExc(g_md)) =>
     g_md.shape = <<g_facts.height, g_facts.width>>


\* the file lacks a part of the geospatial metadata its family needs
LacksGeoMetadata ==
  \/ g_facts.crs # "CRS(EPSG:4326)"
  \/ ~ g_facts.georeferenced
  \/ ~ g_facts.has_coords
  \/ ~ g_facts.has_time

\* C26: for a file that lacks the CRS, the bounds/transform or the
\* latitude/longitude/time coordinates, create_dataset_metadata_eo3 ends in
\* an error and returns no descriptor; no descriptor holds an absent or
\* placeholder CRS.
C26_MissingGeoMetadataFails ==
  g_pc = "described" =>
    /\ LacksGeoMetadata => IsExc(g_md)
    /\ ~ IsExc(g_md) => g_md.crs \notin {"None", ""}


MapPassedFiles ==
  LET upto == IF m_pc = "done" THEN Len(m_names)
              ELSE IF m_pc = "datasets" THEN m_i - 1
              ELSE 0
  IN UNION {Members(product_dataset_map[m_names[k]]) : k \in 1..upto}

FailedNow ==
  /\ Len(log') = Len(log) + 1
  /\ log'[Len(log')].kind = "dataset_failed"

\* C27: no step over a dataset takes a dataset out of the index; a step that
\* fails leaves the index as it was; and a dataset whose step failed is
\* tried again by the next run, not taken for a dataset of the index, also
\* when its sidecar file has been written.
C27_FailureLeavesIndex ==
  [][ /\ index_datasets \subseteq index_datasets'
      /\ FailedNow => index_datasets' = index_datasets
      /\ (Len(log) > 0 /\ log[Len(log)].kind = "dataset_failed"
            /\ Len(log') = Len(log) + 1)
           => log'[Len(log')].kind \in {"dataset_failed", "dataset_added"} ]_vars

\* the insertion failed after the sidecar file was written, the dataset of
\* the earlier run is still in the index, and the next run tried again
C27_Witness ==
  /\ Len(log) = 2
  /\ log[1].kind = "dataset_failed"
  /\ log[1].err = "DatabaseError"
  /\ log[2].kind \in {"dataset_failed", "dataset_added"}
  /\ dataset_filename(b_path) \in DOMAIN dataset_files
  /\ uuid5(OtherDataset) \in index_datasets


\* C28: the document built for a file carries the id that the engine asks
\* the index for, uuid5 of the file reference, whichever adapter family the
\* descriptor comes from; so the run that follows an insertion finds the
\* dataset in the index.
C28_CheckedIdIsDocumentId ==
  /\ (b_dataset_yaml # NotBuilt /\ ~ IsExc(b_dataset_yaml)) =>
        b_dataset_yaml.id = uuid5(b_path)
  /\ \A k \in 1..Len(log) :
       log[k].kind = "dataset_added" =>
         /\ uuid5(b_path) \in index_datasets
         /\ k < Len(log) => log[k + 1].kind = "dataset_exists"

\* a document built from the descriptor of a GeoTIFF was inserted, and the
\* next run found it in the index
C28_Witness ==
  /\ "additions" \in DOMAIN b_dataset_md
  /\ Len(log) = 2
  /\ log[1].kind = "dataset_added"
  /\ log[2].kind = "dataset_exists"


(***************************************************************************)
(* Properties of the listing of a data folder (Spec, SpecMap)              *)
(***************************************************************************)
\* the yaml files that reconciliation has written into the folder
SidecarsIn(fld) ==
  {q \in (DOMAIN dataset_files) \cup (DOMAIN product_files) : q[1] = fld}

\* the map of a grid adapter holds the data files its folder had when it was
\* listed, which are the files it has now and those deleted since
GridMapHoldsDataFilesOnly ==
  pc \in {"products", "datasets"} =>
    \A n \in DOMAIN product_dataset_map :
      /\ NoRepetition(product_dataset_map[n])
      /\ RefsOf(folder[src], files[folder[src]])
            \subseteq Members(product_dataset_map[n])
      /\ Members(product_dataset_map[n]) \subseteq RefsOf(folder[src], DataNames)

\* the map of the tiled-raster adapter holds '.tif' files only, and a yaml
\* file next to the tiles does not make the check of the subfolders fail
TilesMapHoldsTifFilesOnly ==
  /\ MapBuilt =>
       \A n \in DOMAIN product_dataset_map :
         \A d \in Members(product_dataset_map[n]) : endswith(d[2], "tif")
  /\ (m_pc \notin {"off", "map"} /\ m_yaml /\ Len(m_names) >= 3
        /\ ~ TilesDiffer /\ Cardinality(m_tiles[1]) <= 1) => ~ AssertFailed

\* C29: the yaml files that reconciliation writes next to the data files and
\* into the data folder are never listed as datasets: the map of a later run
\* holds the data files of the folder and nothing else, as the map of the
\* first run did, and the check of the parallel subfolders does not see them.
C29_SidecarsNeverListed ==
  /\ GridMapHoldsDataFilesOnly
  /\ TilesMapHoldsTifFilesOnly

\* a second run has listed a folder that holds a data file and a yaml file
\* written by the first run
C29_Witness ==
  /\ run = 2
  /\ pc \in {"products", "datasets"}
  /\ SidecarsIn(folder[src]) # {}
  /\ \E n \in DOMAIN product_dataset_map : Len(product_dataset_map[n]) > 0


\* the subfolder a file of the map lies in; the files of 'investigative' are
\* Sentinel-2 tiles
SubfolderOf(d) == IF d[1] = InvestigativeFolder THEN "s2" ELSE d[1][3]

\* C30: the measurement registry that create_product_metadata_eo3 takes for
\* a product name is the registry of the subfolder of every file that the
\* map lists under that name, and a name with none of the three prefixes
\* gets neither a product descriptor nor a dataset descriptor.
C30_RegistryMatchesSubfolder ==
  MapBuilt =>
    \A k \in 1..Len(m_names) :
      LET odc_product == m_names[k]
          product_metadata == anthro_create_product_metadata_eo3(odc_product)
      IN /\ (odc_product \in DOMAIN product_dataset_map /\ ~ IsExc(product_metadata)) =>
              \A d \in Members(product_dataset_map[odc_product]) :
                product_metadata.bands = SubfolderOf(d)
         /\ NamePrefix(odc_product) = "none" =>
              /\ IsExc(product_metadata)
              /\ IsExc(anthro_create_dataset_metadata_eo3(
                         odc_product, <<TilesFolder("s2"), <<StemSeq[1], "tif">>>>))

=============================================================================
